---------------------------- MODULE Spec2Model ----------------------------
(***************************************************************************)
(* Verification model of the LinDB storage engine core.                    *)
(*                                                                         *)
(* Part 1: the WAL fan-out queue and its consumer groups (package queue).  *)
(*   The implementation of the queue is not among the sources; its         *)
(*   behaviour is taken from the design document and from the package's    *)
(*   tests (src/unnamed/part_001), which are the authority wherever they   *)
(*   show a concrete outcome.                                              *)
(* Part 2: the local replicator (src/replica/replicator_local.go) and the  *)
(*   sequence tracking of the data family it writes into.                  *)
(*                                                                         *)
(* Part 3: the compaction job of a KV family (src/kv/compact_job.go).       *)
(* Part 4: the page factory of the queue (src/unnamed/part_000).           *)
(* Part 5: the goroutine pool (src/internal/concurrent/pool.go).           *)
(* Part 6: the mmap reader of an SST file (src/unnamed/part_004).          *)
(* Part 7: the cache of SST readers, taken from the design document and    *)
(*   from the tests of the cache (src/unnamed/part_003).                   *)
(* Part 8: the memory metadata database (src/unnamed/part_012).            *)
(* Part 9: Close and Notify of the metadata database on its channel.       *)
(* Part 10: its metric stores (GetOrCreateMetricMeta).                     *)
(* Part 11: the WAL configuration (src/unnamed/part_007).                  *)
(* Part 12: the KV store manager (src/unnamed/part_005).                   *)
(* Part 13: the tag values lookup operator of a query                      *)
(*   (src/query/operator/tag_values_lookup.go).                            *)
(* Part 14: the metadata lookup operator of a query                        *)
(*   (src/query/operator/metadata_lookup.go).                              *)
(*                                                                         *)
(* Each part has its own specification; the variables of the other parts   *)
(* stay at their initial values.                                           *)
(***************************************************************************)
EXTENDS Integers, Sequences, FiniteSets, TLC

(***************************************************************************)
(* Bounds of the model.                                                    *)
(***************************************************************************)
\* largest sequence the producer appends to the queue (sequences 0..MaxAppend)
MaxAppend == 2
\* number of times the queue is closed and opened again
MaxReopen == 1
\* largest WAL sequence handed to the replicator
MaxWalSeq == 2
\* number of Replica calls explored
MaxCalls == 4
\* largest key stored in an input file of the compaction (keys 1..MaxKey)
MaxKey == 2
\* largest page id acquired or truncated (page ids 0..MaxPageId)
MaxPageId == 1
\* number of mapped pages created during one run
MaxPageObjects == 3
\* number of Close calls followed on one mapped page
MaxPageCloses == 2
\* maxWorkers of the pool
MaxWorkers == 1
\* number of tasks submitted to the pool, each by a goroutine of its own
MaxTasks == 2

\* largest key of an SST file (keys 1..MaxSstKey)
MaxSstKey == 2
\* footer start of an SST file: the length of the file before its footer
MaxSstPos == 2

\* number of references held on one cached reader
MaxRefs == 2
\* number of readers opened for one file
MaxReaders == 2
\* ttl of the reader cache, in ticks of the clock
CacheTtl == 1

\* number of events given to the metadata database, each by a caller of its own
MaxEvents == 3
\* capacity of the metadata database's channel (128 in the program), scaled
\* down so that the callers can fill it
ChanCapacity == 2

\* number of group-by tag keys and of select items of a query
MaxGroupBy == 2
MaxSelectItems == 2

\* number of nodes of a condition's expression tree
MaxExprNodes == 5

\* number of concurrent calls on the store manager
MaxMgrCallers == 4

\* the largest configured WAL page size, in steps of 64 MiB
MaxPageSteps == 16

\* number of concurrent callers of GetOrCreateMetricMeta
MaxCallers == 3

\* number of Close calls on the metadata database
MaxCloseCalls == 2

\* capacity of the pool's tasks channel
tasksCapacity == 8
\* capacity of the channel of ready workers
readyWorkerQueueSize == 32

\* Consumer groups of the fan-out queue. Groups share nothing but the queue's
\* appended sequence and the head computed from their acknowledged sequences, so
\* one group shows every per-group behaviour.
Groups == {"f1"}

\* SeqNoNewMessageAvailable is math.MinInt64 in the program; the model keeps
\* it as a value below every sequence it can reach.
SeqNoNewMessageAvailable == -1000000

VARIABLES
    \* ---- fan-out queue ----
    appendedSeq,      \* queue.AppendedSeq(), -1 when nothing was appended
    queueAckSeq,      \* queue.AcknowledgedSeq(): head of the queue
    queueMeta,        \* queue meta page on disk: [appended, ack]
    queueClosed,      \* the fan-out queue is closed
    consumedSeq,      \* group -> ConsumedSeq()
    acknowledgedSeq,  \* group -> AcknowledgedSeq()
    groupMeta,        \* group -> 16-byte ack page on disk: [ack, consumed]
    groupState,       \* group -> "running" | "paused" | "closed"
    pc,               \* group -> position of the group's consumer: "idle" | "blocked"
    ret,              \* group -> <<v>> right after a Consume returned v, else <<>>
    opens,            \* history: how many times the queue directory was reopened
    \* ---- data family and local replicator ----
    replicaSeq,       \* the family's replica sequence of the leader (last committed)
    familyRows,       \* what family.WriteRows stored: a log of [sequence, rows]
    ignored,          \* sequences passed to IgnoreMessage
    statistics,       \* counters of StorageLocalReplicatorStatistics
    \* ---- history of the replicator (not program state) ----
    commits,          \* sequence -> number of CommitSequence(leader, sequence) calls
    outcomes,         \* sequence -> the ways Replica calls for it ended
    ncalls,           \* number of Replica calls so far
    \* ---- the replicator's hold on its family ----
    familyRetains,    \* retains of the data family not yet released
    replicatorClosed, \* Close has been called
    familyEvicted     \* the family has been evicted

VARIABLES
    \* ---- compaction job of one KV family ----
    rollup,           \* c.rollup != nil
    level,            \* compaction.GetLevel()
    inputs,           \* compaction.GetInputs(): <<files of level, files of level+1>>
    fileKeys,         \* file number -> keys stored in that input file
    jobPc,            \* position of Run: "start" | "loop" | "install" | "cleanup" | "done"
    runErr,           \* "none" while running, then "nil" or "err": what doMerge / Run returns
    builder,          \* c.state.builder: <<>> when nil, else <<[FileNumber, Count]>>
    outputs,          \* c.state.outputs: file numbers of the finished output files
    editLog,          \* compaction.GetEditLog(): records staged by DeleteFile / AddFile
    committedLogs,    \* edit logs passed to family.commitEditLog, in order
    pendingOutputs,   \* the family's pending output file numbers
    nextFileNumber,   \* next file number the family hands to a new table builder
    itPos,            \* position of the merged input iterator
    needMerge,        \* values collected for the current run of equal keys
    previousKey,      \* key of the previous iterator entry
    start,            \* no entry was read yet
    mergeCalls        \* history: arguments of the Merger.Merge calls, in order

VARIABLES
    \* ---- page factory ----
    diskFiles,        \* names of the files in the factory's directory
    constructed,      \* how NewFactory ended: "no" (not called) | "ok" | "err" | "panic"
    pages,            \* f.pages: page id -> mapped page (a page object)
    factoryClosed,    \* f.closed
    size,             \* f.size
    pageSize,         \* f.pageSize
    nextPage,         \* the next page object NewMappedPage creates
    pageCloses,       \* page of the map -> number of MappedPage.Close calls on it
    closesByClose,    \* page of the map -> how many of them were issued by Factory.Close
    closerPc,         \* caller of Close -> "idle" | "locking" | "returned"
    acquireRet        \* <<>>, or right after an AcquirePage what it returned: [page, err]

VARIABLES
    \* ---- goroutine pool ----
    poolStopped,      \* p.stopped
    ctxDone,          \* p.ctx is cancelled
    taskQueue,        \* p.tasks: the buffered channel of submitted tasks
    readyWorkers,     \* p.readyWorkers: the buffered channel of ready workers
    workersAlive,     \* statistics.WorkersAlive
    tasksRejected,    \* statistics.TasksRejected
    dispPc,           \* dispatcher: "select" | "getWorker" | "execute" | "exiting" | "exited"
    dispTask,         \* the task the dispatcher took from p.tasks (0: none)
    dispWorker,       \* the worker mustGetWorker returned (0: none)
    workerPc,         \* worker -> "none" | "select" | "exec" | "stopped"
    workerTask,       \* worker -> the task it executes (0: none)
    stopPc,           \* caller of Stop: "idle" | "cancel" | "wait" | "workers" | "consume" | "done"
    submitPc,         \* task -> its Submit call: "idle" | "select" | "returned"
    executed,         \* tasks whose handle has run
    tasksPanic,       \* statistics.TasksPanic
    panicHandled      \* tasks whose panicHandle has been invoked

VARIABLES
    \* ---- SST mmap reader ----
    sstFile,          \* the SST file on disk, as its decoded parts
    sstRes,           \* what the reader holds of the OS: file (open handle), mapping "none" | "mapped" | "unmapFailed"
    sstRet,           \* error returned by newMMapStoreReader ("none": not called yet)
    sstReader,        \* the storeMMapReader: state "nil" | "open" | "closed", keys, offsets, entriesLen
    getRet,           \* result of the last Get: key, value, err
    sstIt,            \* the storeMMapIterator and its caller: pc, keyPos (keyIt), idx, key
    visited           \* the <<key, value>> pairs the iterator has yielded

VARIABLES
    \* ---- SST reader cache ----
    cacheItems,       \* file -> its entry: cached, refs, idle (ticks since the last GetReader)
    held,             \* file -> references obtained via GetReader and not yet released
    readersMade,      \* file -> number of readers opened for it
    readerCloses,     \* file -> number of Close calls on its latest reader
    evicted,          \* files removed by Evict
    kept              \* files a Cleanup found idle beyond the ttl but referenced

VARIABLES
    \* ---- memory metadata database ----
    notifyPc,         \* event -> its Notify call: "idle" | "sending" | "returned"
    metaCh,           \* mdb.ch: the buffered channel of events
    accepted,         \* the events in the order their sends on mdb.ch completed
    workerEvent,      \* the event the handle goroutine has received (0: none)
    handled,          \* the events in the order the handle goroutine finished with them
    calls,            \* the calls on metaDB and on the callbacks, in order
    flushPc,          \* flush event -> its handleFlush goroutine: "none" | "flush" | "callback" | "done"
    flushErr          \* flush event -> what metaDB.Flush returned for it

VARIABLES
    \* ---- lifecycle of the memory metadata database ----
    metaClosed,       \* number of close(mdb.ch) executed
    closeCalls,       \* number of Close calls made
    metaPanic         \* the panic that ended the process ("none": it is running)

VARIABLES
    \* ---- metric stores of the memory metadata database ----
    metricMetadatas,  \* mdb.metricMetadatas: name hash -> metric store (0: none)
    mdbLock,          \* the caller that holds mdb.lock (0: free)
    getPc,            \* caller -> its GetOrCreateMetricMeta: "idle" | "lock" | "locked" | "returned"
    getHash,          \* caller -> the name hash of its row (0: not called yet)
    getOut,           \* caller -> what its call returned: store, isNew
    tookLock,         \* the callers that missed the first Load and took mdb.lock
    createdFor        \* the name hash of each newMetricStore() made, in order

VARIABLES
    \* ---- WAL configuration ----
    walPageSize,      \* WAL.PageSize, in bytes (0: unset)
    walRet            \* what the last GetPageSize returned (0: not called yet)

VARIABLES
    \* ---- KV store manager, for one store name ----
    stores,           \* s.stores[name]: the registered Store (0: none)
    storesMade,       \* number of Store instances newStoreFunc has made
    storeCloses,      \* Store instance -> number of close() calls on it
    mgrPc,            \* caller -> "idle" | "closing" | "returned"
    mgrStore          \* caller -> the Store its call looked up or returned (0: none)

VARIABLES
    \* ---- tag values lookup operator ----
    condition,        \* executeCtx.Query.Condition: the expression tree
    schemaTagKeys,    \* the tag keys of executeCtx.Schema.TagKeys
    failingTagKeys,   \* the tag keys for which metaDB.FindTagValueDsByExpr fails
    tvPc,             \* "ready" | "done"
    tvErr,            \* what Execute returned
    TagFilterResult   \* executeCtx.TagFilterResult, as the set of its entries

VARIABLES
    \* ---- metadata lookup operator ----
    mlMetaErr,        \* which call on metaDB fails: "nil" | "GetMetricID" | "GetSchema"
    mlSchema,         \* what GetSchema returns: nil, or the Fields and TagKeys of the metric
    mlGroupBy,        \* Query.GroupBy: tag keys
    mlAllFields,      \* Query.AllFields
    mlSelectItems,    \* Query.SelectItems: the field of each item and whether its function is supported
    mlPc,             \* "ready" | "done"
    mlErr             \* what Execute returned

queueVars == <<appendedSeq, queueAckSeq, queueMeta, queueClosed, consumedSeq,
               acknowledgedSeq, groupMeta, groupState, pc, ret, opens>>
replicaVars == <<replicaSeq, familyRows, ignored, statistics, commits, outcomes, ncalls,
                 familyRetains, replicatorClosed, familyEvicted>>
compactVars == <<rollup, level, inputs, fileKeys, jobPc, runErr, builder, outputs, editLog,
                 committedLogs, pendingOutputs, nextFileNumber, itPos, needMerge,
                 previousKey, start, mergeCalls>>
\* the parts added after the queue and the replicator
pageVars == <<diskFiles, constructed, pages, factoryClosed, size, pageSize, nextPage,
              pageCloses, closesByClose, closerPc, acquireRet>>
poolVars == <<poolStopped, ctxDone, taskQueue, readyWorkers, workersAlive, tasksRejected,
              dispPc, dispTask, dispWorker, workerPc, workerTask, stopPc, submitPc, executed,
              tasksPanic, panicHandled>>
sstVars == <<sstFile, sstRes, sstRet, sstReader, getRet, sstIt, visited>>
\* the parts added after the pool
cacheVars == <<cacheItems, held, readersMade, readerCloses, evicted, kept>>
metaVars == <<notifyPc, metaCh, accepted, workerEvent, handled, calls, flushPc, flushErr>>
\* the parts added after the metadata database's event loop
lifeVars == <<metaClosed, closeCalls, metaPanic>>
getVars == <<metricMetadatas, mdbLock, getPc, getHash, getOut, tookLock, createdFor>>
walVars == <<walPageSize, walRet>>
mgrVars == <<stores, storesMade, storeCloses, mgrPc, mgrStore>>
tvVars == <<condition, schemaTagKeys, failingTagKeys, tvPc, tvErr, TagFilterResult>>
mlVars == <<mlMetaErr, mlSchema, mlGroupBy, mlAllFields, mlSelectItems, mlPc, mlErr>>
queryVars == <<tvVars, mlVars>>
restVars == <<lifeVars, getVars, walVars, mgrVars, queryVars>>
\* what the steps of each of these parts leave alone
baseVars == <<queueVars, replicaVars, compactVars, pageVars, poolVars, sstVars, cacheVars>>
exceptLife == <<baseVars, getVars, walVars, mgrVars, queryVars>>
exceptGet == <<baseVars, metaVars, lifeVars, walVars, mgrVars, queryVars>>
exceptWal == <<baseVars, metaVars, lifeVars, getVars, mgrVars, queryVars>>
exceptMgr == <<baseVars, metaVars, lifeVars, getVars, walVars, queryVars>>
exceptTv == <<baseVars, metaVars, lifeVars, getVars, walVars, mgrVars, mlVars>>
exceptMl == <<baseVars, metaVars, lifeVars, getVars, walVars, mgrVars, tvVars>>
laterVars == <<sstVars, cacheVars, metaVars, restVars>>
otherVars == <<compactVars, pageVars, poolVars, laterVars>>
vars == <<queueVars, replicaVars, otherVars>>

(***************************************************************************)
(* Part 1: fan-out queue and consumer groups                               *)
(***************************************************************************)

\* arguments tried for Ack and SetConsumedSeq: below -1, inside and above the queue
SeqArgs == (-2)..(MaxAppend + 1)

Min(S) == CHOOSE x \in S : \A y \in S : x <= y

\* NewFanOutQueue on an empty directory, GetOrCreateConsumerGroup for each group:
\* AppendedSeq = AcknowledgedSeq = -1, each group at consumed = ack = -1.
QueueInit ==
    /\ appendedSeq = -1
    /\ queueAckSeq = -1
    /\ queueMeta = [appended |-> -1, ack |-> -1]
    /\ queueClosed = FALSE
    /\ consumedSeq = [g \in Groups |-> -1]
    /\ acknowledgedSeq = [g \in Groups |-> -1]
    /\ groupMeta = [g \in Groups |-> [ack |-> -1, consumed |-> -1]]
    /\ groupState = [g \in Groups |-> "running"]
    /\ pc = [g \in Groups |-> "idle"]
    /\ ret = [g \in Groups |-> <<>>]
    /\ opens = 0

\* Pending(): entries appended and not yet consumed by the group
Pending(g) == appendedSeq - consumedSeq[g]

\* the group has nothing to consume
NothingToConsume(g) == consumedSeq[g] + 1 > appendedSeq

Running(g) == groupState[g] = "running" /\ ~queueClosed

\* the value a Consume returned is held by its caller until the next operation on the group
Forget(g) == ret' = [ret EXCEPT ![g] = <<>>]

\* queue.Put(msg): appends one entry, persists AppendedSeq, signals the groups.
Put ==
    /\ ~queueClosed
    /\ appendedSeq < MaxAppend
    /\ appendedSeq' = appendedSeq + 1
    /\ queueMeta' = [queueMeta EXCEPT !.appended = appendedSeq + 1]
    /\ UNCHANGED <<otherVars, replicaVars, opens, queueAckSeq, queueClosed, consumedSeq, acknowledgedSeq, groupMeta,
                   groupState, pc, ret>>

\* mutant: the consumed sequence is advanced in memory only
ConsumeTakeNotPersisted(g) ==
    /\ consumedSeq' = [consumedSeq EXCEPT ![g] = consumedSeq[g] + 1]
    /\ ret' = [ret EXCEPT ![g] = <<consumedSeq[g] + 1>>]
    /\ UNCHANGED groupMeta

\* mutant: the same sequence is handed out again
ConsumeTakeRepeats(g) ==
    /\ ret' = [ret EXCEPT ![g] = <<consumedSeq[g] + 1>>]
    /\ UNCHANGED <<consumedSeq, groupMeta>>

\* consume(): the non-blocking step. Takes the next sequence when there is one and
\* persists the consumed sequence, else answers SeqNoNewMessageAvailable.
ConsumeTake(g) ==
    /\ consumedSeq' = [consumedSeq EXCEPT ![g] = consumedSeq[g] + 1]
    /\ groupMeta' = [groupMeta EXCEPT ![g].consumed = consumedSeq[g] + 1]
    /\ ret' = [ret EXCEPT ![g] = <<consumedSeq[g] + 1>>]

ConsumeNothing(g) ==
    /\ ret' = [ret EXCEPT ![g] = <<SeqNoNewMessageAvailable>>]
    /\ UNCHANGED <<consumedSeq, groupMeta>>

Closed(g) == groupState[g] = "closed" \/ queueClosed

\* mutant: the next sequence is handed out without looking at the queue
ConsumeReturnAlwaysTakes(g) == ConsumeTake(g)

\* What a Consume that does not (or no longer) wait answers: nothing when there is
\* no entry or the group is closed, the next sequence when the group is running.
\* With an entry pending and the group paused the sources do not fix the answer:
\* both outcomes are kept.
ConsumeReturn(g) ==
    IF NothingToConsume(g) \/ Closed(g)
    THEN ConsumeNothing(g)
    ELSE IF Running(g)
         THEN ConsumeTake(g)
         ELSE ConsumeTake(g) \/ ConsumeNothing(g)

\* Consume(): called by the group's consumer. Blocks while the group is running and
\* has nothing to consume; otherwise returns at once.
Consume(g) ==
    /\ pc[g] = "idle"
    /\ IF NothingToConsume(g) /\ Running(g)
       THEN /\ pc' = [pc EXCEPT ![g] = "blocked"]
            /\ Forget(g)
            /\ UNCHANGED <<consumedSeq, groupMeta>>
       ELSE /\ ConsumeReturn(g)
            /\ UNCHANGED pc
    /\ UNCHANGED <<otherVars, replicaVars, opens, appendedSeq, queueAckSeq, queueMeta, queueClosed, acknowledgedSeq,
                   groupState>>

\* mutant: only an append ends the wait
WakeOnAppendOnly(g) == ~NothingToConsume(g)

\* what ends the wait of a blocked consumer
WakeCondition(g) == ~NothingToConsume(g) \/ ~Running(g)

\* The blocked consumer is woken (append, pause, close of the group, close of the
\* queue), re-checks its condition and returns.
ConsumeWake(g) ==
    /\ pc[g] = "blocked"
    /\ WakeCondition(g)
    /\ ConsumeReturn(g)
    /\ pc' = [pc EXCEPT ![g] = "idle"]
    /\ UNCHANGED <<otherVars, replicaVars, opens, appendedSeq, queueAckSeq, queueMeta, queueClosed, acknowledgedSeq,
                   groupState>>

\* mutant: the upper bound of Ack is not checked
AckAcceptsAboveConsumed(g, s) == s > acknowledgedSeq[g]

\* Ack(s): ignored when s <= AcknowledgedSeq or s > ConsumedSeq, else recorded and
\* written to the group's ack page.
AckAccepts(g, s) == s > acknowledgedSeq[g] /\ s <= consumedSeq[g]

Ack(g, s) ==
    /\ groupState[g] # "closed"
    /\ ~queueClosed
    /\ IF AckAccepts(g, s)
       THEN /\ acknowledgedSeq' = [acknowledgedSeq EXCEPT ![g] = s]
            /\ groupMeta' = [groupMeta EXCEPT ![g].ack = s]
       ELSE UNCHANGED <<acknowledgedSeq, groupMeta>>
    /\ Forget(g)
    /\ UNCHANGED <<otherVars, replicaVars, opens, appendedSeq, queueAckSeq, queueMeta, queueClosed, consumedSeq,
                   groupState, pc>>

\* mutant: the value is clamped to [-1, AppendedSeq]
StoredConsumedSeqClamped(s) ==
    IF s < -1 THEN -1 ELSE IF s > appendedSeq THEN appendedSeq ELSE s

\* The value SetConsumedSeq(s) stores. TestConsumerGroup_SetConsumedSeq sets 1 on an
\* empty queue (AppendedSeq = -1) and reads ConsumedSeq() = 1, and sets 0 after
\* Ack(1) and reads 0: the value is bounded neither by AppendedSeq nor by
\* AcknowledgedSeq. Below -1 the design document's lower bound is kept.
StoredConsumedSeq(s) == IF s < -1 THEN -1 ELSE s

SetConsumedSeq(g, s) ==
    /\ groupState[g] # "closed"
    /\ ~queueClosed
    /\ consumedSeq' = [consumedSeq EXCEPT ![g] = StoredConsumedSeq(s)]
    /\ groupMeta' = [groupMeta EXCEPT ![g].consumed = StoredConsumedSeq(s)]
    /\ Forget(g)
    /\ UNCHANGED <<otherVars, replicaVars, opens, appendedSeq, queueAckSeq, queueMeta, queueClosed, acknowledgedSeq,
                   groupState, pc>>

\* Pause(): the group stops handing out entries; a waiting consumer is woken.
Pause(g) ==
    /\ groupState[g] = "running"
    /\ ~queueClosed
    /\ groupState' = [groupState EXCEPT ![g] = "paused"]
    /\ Forget(g)
    /\ UNCHANGED <<otherVars, replicaVars, opens, appendedSeq, queueAckSeq, queueMeta, queueClosed, consumedSeq,
                   acknowledgedSeq, groupMeta, pc>>

\* consumerGroup.Close(): closes the group; a waiting consumer is woken.
CloseGroup(g) ==
    /\ groupState[g] # "closed"
    /\ groupState' = [groupState EXCEPT ![g] = "closed"]
    /\ Forget(g)
    /\ UNCHANGED <<otherVars, replicaVars, opens, appendedSeq, queueAckSeq, queueMeta, queueClosed, consumedSeq,
                   acknowledgedSeq, groupMeta, pc>>

\* fanOutQueue.Close(): closes every group and the queue.
CloseQueue ==
    /\ ~queueClosed
    /\ queueClosed' = TRUE
    /\ groupState' = [g \in Groups |-> "closed"]
    /\ ret' = [g \in Groups |-> IF pc[g] = "idle" THEN <<>> ELSE ret[g]]
    /\ UNCHANGED <<otherVars, replicaVars, opens, appendedSeq, queueAckSeq, queueMeta, consumedSeq, acknowledgedSeq,
                   groupMeta, pc>>

\* The sequences a group starts from when it is opened over an existing ack page:
\* the page's values, the acknowledged one raised to the queue's when it is behind
\* (TestNewConsumerGroup, "reset ack").
LoadedAck(g) ==
    IF groupMeta[g].ack < queueMeta.ack THEN queueMeta.ack ELSE groupMeta[g].ack

LoadedConsumed(g) == groupMeta[g].consumed

\* NewFanOutQueue on the directory of a closed queue, GetOrCreateConsumerGroup for
\* each group: everything is read back from the pages.
Reopen ==
    /\ queueClosed
    /\ opens < MaxReopen
    /\ \A g \in Groups : pc[g] = "idle"
    /\ opens' = opens + 1
    /\ queueClosed' = FALSE
    /\ appendedSeq' = queueMeta.appended
    /\ queueAckSeq' = queueMeta.ack
    /\ consumedSeq' = [g \in Groups |-> LoadedConsumed(g)]
    /\ acknowledgedSeq' = [g \in Groups |-> LoadedAck(g)]
    /\ groupMeta' = [g \in Groups |-> [ack |-> LoadedAck(g), consumed |-> LoadedConsumed(g)]]
    /\ groupState' = [g \in Groups |-> "running"]
    /\ ret' = [g \in Groups |-> <<>>]
    /\ UNCHANGED <<otherVars, replicaVars, queueMeta, pc>>

\* The periodic remove task: the queue's head follows the least acknowledged
\* sequence of the groups.
Sync ==
    /\ ~queueClosed
    /\ LET minAck == Min({acknowledgedSeq[g] : g \in Groups})
       IN  /\ minAck > queueAckSeq
           /\ queueAckSeq' = minAck
           /\ queueMeta' = [queueMeta EXCEPT !.ack = minAck]
    /\ UNCHANGED <<otherVars, replicaVars, opens, appendedSeq, queueClosed, consumedSeq, acknowledgedSeq, groupMeta,
                   groupState, pc, ret>>

NextQueue ==
    \/ Put
    \/ \E g \in Groups : Consume(g)
    \/ \E g \in Groups : ConsumeWake(g)
    \/ \E g \in Groups, s \in SeqArgs : Ack(g, s)
    \/ \E g \in Groups, s \in SeqArgs : SetConsumedSeq(g, s)
    \/ \E g \in Groups : Pause(g)
    \/ \E g \in Groups : CloseGroup(g)
    \/ CloseQueue
    \/ Reopen
    \/ Sync

(***************************************************************************)
(* Part 2: data family sequences and local replicator                      *)
(*                                                                         *)
(* One replicator for one (family, leader); Replica is never called        *)
(* concurrently for the same leader, so a call is one step.                *)
(***************************************************************************)

WalSeqs == 0..MaxWalSeq

\* A WAL payload, by what the replicator can observe of it:
\*   snappy - reader.Uncompress succeeds
\*   flat   - the uncompressed block is a well-formed size-prefixed row list
\*            (UnmarshalRows panics on any other block)
\*   rows   - the timestamps of the rows of the block, in block order
Msg(snappy, flat, rows) == [snappy |-> snappy, flat |-> flat, rows |-> rows]

Msgs == { Msg(FALSE, FALSE, <<>>),
          Msg(TRUE, FALSE, <<>>),
          Msg(TRUE, TRUE, <<>>),
          Msg(TRUE, TRUE, <<2, 1>>) }

\* family.Retain() and family.Release() on the family's count of users
RetainNot(n) == n
Retain(n) == n + 1
Release(n) == n - 1

\* the state NewLocalReplicator leaves: the family is retained once
ReplicaInit ==
    /\ familyRetains = Retain(0)
    /\ replicatorClosed = FALSE
    /\ familyEvicted = FALSE
    /\ replicaSeq = -1
    /\ familyRows = <<>>
    /\ ignored = {}
    /\ statistics = [InvalidSequence |-> 0, DecompressFailures |-> 0,
                     ReplicaFailures |-> 0, ReplicaRows |-> 0]
    /\ commits = [s \in WalSeqs |-> 0]
    /\ outcomes = [s \in WalSeqs |-> {}]
    /\ ncalls = 0

\* family.ValidateSequence(leader, seq): the sequence is the next contiguous one.
ValidateSequence(seq) == seq = replicaSeq + 1

\* family.CommitSequence(leader, seq): advances the replica sequence unconditionally.
CommitSequence(seq) ==
    /\ replicaSeq' = seq
    /\ commits' = [commits EXCEPT ![seq] = @ + 1]

\* replicator.IgnoreMessage(seq)
IgnoreMessage(seq) == ignored' = ignored \cup {seq}

\* mutant: the sequence is not validated
DroppedNever(sequence) == FALSE

\* Replica, line 89: the entry is dropped before anything else is set up.
Dropped(sequence) == ~ValidateSequence(sequence)

\* How far the body of Replica gets for a validated entry.
Path(msg, writeOK) ==
    IF ~msg.snappy THEN "decompress"        \* line 110: Uncompress failed
    ELSE IF ~msg.flat THEN "panic"          \* line 120: UnmarshalRows panics
    ELSE IF Len(msg.rows) = 0 THEN "empty"  \* line 123: no rows
    ELSE IF ~writeOK THEN "writeErr"        \* line 127: WriteRows failed
    ELSE "written"

\* mutant: the error of Uncompress is bound to a variable of its own as well
DeferredErrNever(msg, writeOK) == FALSE

\* mutant: the commit is not deferred, it follows the successful write
CommitsOnSuccessOnly(msg, writeOK) ==
    IF ~msg.snappy THEN FALSE
    ELSE IF ~msg.flat THEN FALSE
    ELSE Len(msg.rows) = 0 \/ writeOK

\* The function's variable err as the deferred function reads it. Line 109 assigns
\* it the result of Uncompress. Line 127 declares a new err in the scope of its if
\* statement, so the error of WriteRows never reaches the function's variable.
DeferredErr(msg, writeOK) == Path(msg, writeOK) = "decompress"

\* The deferred function commits on every path it is registered for: return,
\* early return and panic.
DeferredCommits(msg, writeOK) == TRUE

\* localReplicator.Replica(sequence, msg); writeOK is the answer of family.WriteRows.
Replica(sequence, msg, writeOK) ==
    /\ ncalls < MaxCalls
    /\ ncalls' = ncalls + 1
    /\ IF Dropped(sequence)
       THEN /\ statistics' = [statistics EXCEPT !.InvalidSequence = @ + 1]
            /\ outcomes' = [outcomes EXCEPT ![sequence] = @ \cup {"invalid"}]
            /\ UNCHANGED <<replicaSeq, familyRows, ignored, commits>>
       ELSE LET path == Path(msg, writeOK) IN
            /\ outcomes' = [outcomes EXCEPT ![sequence] = @ \cup {path}]
            /\ statistics' =
                 [statistics EXCEPT
                    !.DecompressFailures = IF path = "decompress" THEN @ + 1 ELSE @,
                    !.ReplicaFailures = IF path = "writeErr" THEN @ + 1 ELSE @,
                    !.ReplicaRows = IF path = "written" THEN @ + Len(msg.rows) ELSE @]
            /\ familyRows' = IF path = "written"
                             THEN Append(familyRows, [sequence |-> sequence, rows |-> msg.rows])
                             ELSE familyRows
            /\ IF DeferredErr(msg, writeOK)
               THEN IgnoreMessage(sequence)
               ELSE UNCHANGED ignored
            /\ IF DeferredCommits(msg, writeOK)
               THEN CommitSequence(sequence)
               ELSE UNCHANGED <<replicaSeq, commits>>
    /\ UNCHANGED <<familyRetains, replicatorClosed, familyEvicted>>
    /\ UNCHANGED <<queueVars, otherVars>>

\* localReplicator.Close, called once by the owner of the replicator
CloseReplicator ==
    /\ ~replicatorClosed
    /\ replicatorClosed' = TRUE
    /\ familyRetains' = Release(familyRetains)
    /\ UNCHANGED <<replicaSeq, familyRows, ignored, statistics, commits, outcomes, ncalls,
                   familyEvicted>>
    /\ UNCHANGED <<queueVars, otherVars>>

\* the shard evicts a family that nobody retains
EvictFamily ==
    /\ ~familyEvicted
    /\ familyRetains <= 0
    /\ familyEvicted' = TRUE
    /\ UNCHANGED <<replicaSeq, familyRows, ignored, statistics, commits, outcomes, ncalls,
                   familyRetains, replicatorClosed>>
    /\ UNCHANGED <<queueVars, otherVars>>

NextReplica ==
    \/ \E sequence \in WalSeqs, msg \in Msgs, writeOK \in BOOLEAN :
          Replica(sequence, msg, writeOK)
    \/ CloseReplicator
    \/ EvictFamily

(***************************************************************************)
(* Part 3: compaction job of a KV family                                   *)
(*                                                                         *)
(* One compactJob runs in one goroutine. Run is followed step by step:     *)
(* the dispatch, each round of the merge loop, the end of doMerge, the     *)
(* installation of the results and the deferred cleanup. The picked        *)
(* compaction, the family, the table builder, the merged iterator and the  *)
(* user's Merger are collaborators outside compact_job.go.                 *)
(***************************************************************************)

Keys == 1..MaxKey

\* the compactions the planner can hand to the job: file 1 of the level alone,
\* with a second file of the level, or with a file of the next level
PickedInputs == { << <<1>>, <<>> >>, << <<1, 2>>, <<>> >>, << <<1>>, <<2>> >> }

Range(f) == { f[i] : i \in DOMAIN f }

\* the input files in the order makeInputIterator opens them
InputFiles == inputs[1] \o inputs[2]

CompactInit ==
    /\ rollup \in BOOLEAN
    /\ level \in {0, 1}
    /\ inputs \in PickedInputs
    /\ fileKeys \in [{1, 2} -> SUBSET Keys]
    /\ \A f \in {1, 2} : f \notin Range(InputFiles) => fileKeys[f] = {}
    /\ jobPc = "start"
    /\ runErr = "none"
    /\ builder = <<>>
    /\ outputs = <<>>
    /\ editLog = {}
    /\ committedLogs = <<>>
    /\ pendingOutputs = {}
    /\ nextFileNumber = 3
    /\ itPos = 1
    /\ needMerge = <<>>
    /\ previousKey = 0
    /\ start = TRUE
    /\ mergeCalls = <<>>

\* compaction.IsTrivialMove(): one file at the level, nothing picked above it
IsTrivialMove == Len(inputs[1]) = 1 /\ Len(inputs[2]) = 0

\* compaction.DeleteFile / compaction.AddFile stage a record in the edit log
DeleteFile(l, f) == [op |-> "delete", level |-> l, file |-> f]
AddFile(l, f) == [op |-> "add", level |-> l, file |-> f]

\* compaction.MarkInputDeletes(): every input is deleted at the level it is on
MarkInputDeletes ==
    { DeleteFile(level, inputs[1][i]) : i \in DOMAIN inputs[1] }
        \cup { DeleteFile(level + 1, inputs[2][i]) : i \in DOMAIN inputs[2] }

MovedEditLogAddOnly == { AddFile(level + 1, inputs[1][1]) }

\* moveCompaction: the records staged for the single file of the level
MovedEditLog == { DeleteFile(level, inputs[1][1]), AddFile(level + 1, inputs[1][1]) }

\* Run, first case of the switch: a trivial move of a compaction without rollup
RunMove ==
    /\ jobPc = "start"
    /\ ~rollup /\ IsTrivialMove
    /\ editLog' = editLog \cup MovedEditLog
    /\ committedLogs' = Append(committedLogs, editLog')
    /\ jobPc' = "done"
    /\ runErr' = "nil"
    /\ UNCHANGED <<rollup, level, inputs, fileKeys, builder, outputs, pendingOutputs,
                   nextFileNumber, itPos, needMerge, previousKey, start, mergeCalls>>
    /\ UNCHANGED <<queueVars, replicaVars, pageVars, poolVars, laterVars>>

\* Run, default case: mergeCompaction enters doMerge, where newMerger and then
\* makeInputIterator (snapshot.GetReader of each input) can fail
RunMerge ==
    /\ jobPc = "start"
    /\ ~(~rollup /\ IsTrivialMove)
    /\ \E step \in {"ok", "newMerger", "GetReader"} :
          IF step = "ok"
          THEN jobPc' = "loop" /\ UNCHANGED runErr
          ELSE jobPc' = "cleanup" /\ runErr' = "err"
    /\ UNCHANGED <<rollup, level, inputs, fileKeys, builder, outputs, editLog, committedLogs,
                   pendingOutputs, nextFileNumber, itPos, needMerge, previousKey, start,
                   mergeCalls>>
    /\ UNCHANGED <<queueVars, replicaVars, pageVars, poolVars, laterVars>>

\* the entries of the input files; a value is named by the file it is stored in
InputEntries ==
    { e \in [key : Keys, value : Range(InputFiles)] : e.key \in fileKeys[e.value] }

FileIndex(f) == CHOOSE i \in DOMAIN InputFiles : InputFiles[i] = f

Before(a, b) ==
    a.key < b.key \/ (a.key = b.key /\ FileIndex(a.value) < FileIndex(b.value))

RECURSIVE SortEntries(_)
SortEntries(S) ==
    IF S = {} THEN <<>>
    ELSE LET m == CHOOSE a \in S : \A b \in S \ {a} : Before(a, b)
         IN  <<m>> \o SortEntries(S \ {m})

\* table.NewMergedIterator over the iterators of the input files: every entry
\* of every file, ascending by key, equal keys in the order of the files
MergedIterator == SortEntries(InputEntries)

\* finishCompactionOutputFile on builder b with outputs outs; closeOK is the
\* result of builder.Close()
FinishOutputFile(b, outs, closeOK) ==
    IF b = <<>> THEN [builder |-> b, outputs |-> outs, err |-> TRUE]
    ELSE IF b[1].Count = 0 THEN [builder |-> <<>>, outputs |-> outs, err |-> FALSE]
    ELSE IF ~closeOK THEN [builder |-> b, outputs |-> outs, err |-> TRUE]
    ELSE [builder |-> <<>>, outputs |-> Append(outs, b[1].FileNumber), err |-> FALSE]

\* what one Merger.Merge call does with the compact flusher
MergeOutcomes ==
    {"mergeErr", "nothing", "streamOnly", "addErr", "added", "closeErr", "rolled"}
        \cup (IF builder = <<>> THEN {"openErr"} ELSE {})

\* the flusher's state after beforeAdd succeeded: openCompactionOutputFile takes
\* a new table builder of the family, whose file number becomes a pending output
Opened ==
    IF builder = <<>>
    THEN [builder |-> << [FileNumber |-> nextFileNumber, Count |-> 0] >>,
          outputs |-> outputs,
          pending |-> pendingOutputs \cup {nextFileNumber},
          next |-> nextFileNumber + 1,
          err |-> FALSE]
    ELSE [builder |-> builder, outputs |-> outputs, pending |-> pendingOutputs,
          next |-> nextFileNumber, err |-> FALSE]

\* ... and after builder.Add stored the merged value
Added == [Opened EXCEPT !.builder = << [@[1] EXCEPT !.Count = @ + 1] >>]

\* afterAdd when the builder reached maxFileSize
RolledOver(closeOK) ==
    LET fin == FinishOutputFile(Added.builder, Added.outputs, closeOK)
    IN  [Added EXCEPT !.builder = fin.builder, !.outputs = fin.outputs, !.err = fin.err]

\* Merger.Merge(key, values) with outcome o: the merger fails, writes nothing,
\* takes the stream writer without writing, or adds one value (compactFlusher.Add)
AfterMerge(o) ==
    LET same == [builder |-> builder, outputs |-> outputs, pending |-> pendingOutputs,
                 next |-> nextFileNumber, err |-> FALSE]
    IN  CASE o = "mergeErr"   -> [same EXCEPT !.err = TRUE]
          [] o = "nothing"    -> same
          [] o = "streamOnly" -> Opened
          [] o = "openErr"    -> [same EXCEPT !.err = TRUE]
          [] o = "addErr"     -> [Opened EXCEPT !.err = TRUE]
          [] o = "added"      -> Added
          [] o = "closeErr"   -> RolledOver(FALSE)
          [] o = "rolled"     -> RolledOver(TRUE)

SameRunWithoutStart(key) == key = previousKey

\* doMerge, first case of the loop's switch: the entry continues the current run
SameRun(key) == start \/ key = previousKey

\* doMerge: one round of the loop over the merged iterator
MergeLoop ==
    /\ jobPc = "loop"
    /\ itPos <= Len(MergedIterator)
    /\ LET key == MergedIterator[itPos].key
           value == MergedIterator[itPos].value
       IN  IF SameRun(key)
           THEN /\ needMerge' = Append(needMerge, value)
                /\ start' = FALSE
                /\ previousKey' = key
                /\ itPos' = itPos + 1
                /\ UNCHANGED <<jobPc, runErr, builder, outputs, pendingOutputs,
                               nextFileNumber, mergeCalls>>
           ELSE \E o \in MergeOutcomes :
                   LET r == AfterMerge(o)
                   IN  /\ mergeCalls' = Append(mergeCalls,
                                               [key |-> previousKey, values |-> needMerge])
                       /\ builder' = r.builder
                       /\ outputs' = r.outputs
                       /\ pendingOutputs' = r.pending
                       /\ nextFileNumber' = r.next
                       /\ IF r.err
                          THEN /\ jobPc' = "cleanup"
                               /\ runErr' = "err"
                               /\ UNCHANGED <<needMerge, previousKey, itPos, start>>
                          ELSE /\ needMerge' = <<value>>
                               /\ previousKey' = key
                               /\ itPos' = itPos + 1
                               /\ UNCHANGED <<jobPc, runErr, start>>
    /\ UNCHANGED <<rollup, level, inputs, fileKeys, editLog, committedLogs>>
    /\ UNCHANGED <<queueVars, replicaVars, pageVars, poolVars, laterVars>>

\* doMerge after the loop: the last run is merged and the open builder finished
MergeTail ==
    /\ jobPc = "loop"
    /\ itPos > Len(MergedIterator)
    /\ \E o \in MergeOutcomes, closeOK \in BOOLEAN :
          LET merged == Len(needMerge) > 0
              r == IF merged THEN AfterMerge(o)
                   ELSE [builder |-> builder, outputs |-> outputs, pending |-> pendingOutputs,
                         next |-> nextFileNumber, err |-> FALSE]
              fin == IF ~r.err /\ r.builder # <<>>
                     THEN FinishOutputFile(r.builder, r.outputs, closeOK)
                     ELSE [builder |-> r.builder, outputs |-> r.outputs, err |-> r.err]
          IN  /\ mergeCalls' = IF merged
                               THEN Append(mergeCalls,
                                           [key |-> previousKey, values |-> needMerge])
                               ELSE mergeCalls
              /\ builder' = fin.builder
              /\ outputs' = fin.outputs
              /\ pendingOutputs' = r.pending
              /\ nextFileNumber' = r.next
              /\ IF fin.err
                 THEN jobPc' = "cleanup" /\ runErr' = "err"
                 ELSE jobPc' = "install" /\ UNCHANGED runErr
    /\ UNCHANGED <<rollup, level, inputs, fileKeys, editLog, committedLogs, itPos, needMerge,
                   previousKey, start>>
    /\ UNCHANGED <<queueVars, replicaVars, pageVars, poolVars, laterVars>>

InstallLevelAlwaysUp == level + 1

\* installCompactionResults: the level the outputs are added to
InstallLevel == IF rollup THEN level ELSE level + 1

\* installCompactionResults, then mergeCompaction returns nil
Install ==
    /\ jobPc = "install"
    /\ editLog' = editLog \cup (IF rollup THEN {} ELSE MarkInputDeletes)
                          \cup { AddFile(InstallLevel, outputs[i]) : i \in DOMAIN outputs }
    /\ committedLogs' = Append(committedLogs, editLog')
    /\ jobPc' = "cleanup"
    /\ runErr' = "nil"
    /\ UNCHANGED <<rollup, level, inputs, fileKeys, builder, outputs, pendingOutputs,
                   nextFileNumber, itPos, needMerge, previousKey, start, mergeCalls>>
    /\ UNCHANGED <<queueVars, replicaVars, pageVars, poolVars, laterVars>>

PendingAfterCleanupOfOutputsOnly == pendingOutputs \ Range(outputs)

\* cleanupCompaction: the pending outputs left once the open builder's file
\* number and the finished outputs' file numbers were removed
PendingAfterCleanup ==
    (pendingOutputs \ (IF builder # <<>> THEN {builder[1].FileNumber} ELSE {}))
        \ Range(outputs)

\* the deferred cleanupCompaction of mergeCompaction; Run returns after it
Cleanup ==
    /\ jobPc = "cleanup"
    /\ pendingOutputs' = PendingAfterCleanup
    /\ jobPc' = "done"
    /\ UNCHANGED <<rollup, level, inputs, fileKeys, runErr, builder, outputs, editLog,
                   committedLogs, nextFileNumber, itPos, needMerge, previousKey, start,
                   mergeCalls>>
    /\ UNCHANGED <<queueVars, replicaVars, pageVars, poolVars, laterVars>>

NextCompact ==
    \/ RunMove
    \/ RunMerge
    \/ MergeLoop
    \/ MergeTail
    \/ Install
    \/ Cleanup

(***************************************************************************)
(* Part 4: page factory                                                    *)
(*                                                                         *)
(* AcquirePage and TruncatePages run under the factory's mutex and are one *)
(* step each. Close first swaps f.closed and then takes the mutex: two     *)
(* steps of the caller. The mapped page and the file utilities are outside *)
(* the file; a failure of theirs is a choice of the step. A file name is   *)
(* a sequence of characters, with the suffix "bat" kept as one element.    *)
(***************************************************************************)

PageIds == 0..MaxPageId
PageSizes == {2}
Closers == {"c1", "c2"}

\* const pageSuffix
pageSuffix == "bat"

Digits == <<"0", "1", "2", "3", "4", "5", "6", "7", "8", "9">>

\* pageFileName: fmt.Sprintf("%d.%s", index, pageSuffix), for an index below 10
pageFileName(index) == <<Digits[index + 1], ".", pageSuffix>>

\* what the directory can hold when the factory is created
DiskChoices ==
    { {},
      {pageFileName(0)},
      {pageFileName(0), pageFileName(1)},
      {pageFileName(0), <<"x", ".", pageSuffix>>},
      {pageFileName(0), <<"x">>},
      {<<"0", ".", pageSuffix, ".", "x">>} }

\* strings.Index(fn, pageSuffix): offset of the first occurrence, -1 without one
IndexOfSuffix(fn) ==
    IF \E i \in DOMAIN fn : fn[i] = pageSuffix
    THEN Min({ i \in DOMAIN fn : fn[i] = pageSuffix }) - 1
    ELSE -1

IsDigit(c) == \E d \in DOMAIN Digits : Digits[d] = c
DigitValue(c) == (CHOOSE d \in DOMAIN Digits : Digits[d] = c) - 1

\* strconv.ParseInt(str, 10, 64) of an unsigned literal: <<>> is the error
RECURSIVE ParseDigits(_)
ParseDigits(str) ==
    IF Len(str) = 1 THEN DigitValue(str[1])
    ELSE 10 * ParseDigits(SubSeq(str, 1, Len(str) - 1)) + DigitValue(str[Len(str)])

ParseInt(str) ==
    IF str # <<>> /\ \A i \in DOMAIN str : IsDigit(str[i])
    THEN <<ParseDigits(str)>>
    ELSE <<>>

PageInit ==
    /\ diskFiles \in DiskChoices
    /\ constructed = "no"
    /\ pages = <<>>
    /\ factoryClosed = FALSE
    /\ size = 0
    /\ pageSize \in PageSizes
    /\ nextPage = 1
    /\ pageCloses = <<>>
    /\ closesByClose = <<>>
    /\ closerPc = [c \in Closers |-> "idle"]
    /\ acquireRet = <<>>

\* the page objects registered in page map p
PagesOf(p) == { p[id] : id \in DOMAIN p }

\* the counts cl kept for the pages of map p; a page new to the map starts at 0
CountsFor(cl, p) == [o \in PagesOf(p) |-> IF o \in DOMAIN cl THEN cl[o] ELSE 0]

RegisteredNever(f, index) == FALSE

\* AcquirePage: f.pages[index] exists
Registered(f, index) == index \in DOMAIN f.pages

\* AcquirePage on the factory fields f; mapOK is the result of NewMappedPage
Acquire(f, index, mapOK) ==
    IF f.closed
    THEN [f EXCEPT !.ret = [page |-> 0, err |-> "errFactoryClosed"]]
    ELSE IF Registered(f, index)
    THEN [f EXCEPT !.ret = [page |-> f.pages[index], err |-> "nil"]]
    ELSE IF ~mapOK
    THEN [f EXCEPT !.ret = [page |-> 0, err |-> "errMap"]]
    ELSE [f EXCEPT !.pages = [i \in DOMAIN f.pages \cup {index} |->
                                 IF i = index THEN f.next ELSE f.pages[i]],
                   !.size = f.size + pageSize,
                   !.next = f.next + 1,
                   !.disk = f.disk \cup {pageFileName(index)},
                   !.ret = [page |-> f.next, err |-> "nil"]]

\* the fields of the factory that AcquirePage and loadPages read and write
Fields ==
    [pages |-> pages, size |-> size, next |-> nextPage, disk |-> diskFiles,
     closed |-> factoryClosed, ret |-> acquireRet]

AcquirePage(index, mapOK) ==
    /\ constructed = "ok"
    /\ (mapOK /\ ~factoryClosed /\ ~Registered(Fields, index)) => nextPage <= MaxPageObjects
    /\ LET f == Acquire(Fields, index, mapOK)
       IN  /\ pages' = f.pages
           /\ size' = f.size
           /\ nextPage' = f.next
           /\ diskFiles' = f.disk
           /\ acquireRet' = f.ret
           /\ pageCloses' = CountsFor(pageCloses, f.pages)
           /\ closesByClose' = CountsFor(closesByClose, f.pages)
    /\ UNCHANGED <<constructed, factoryClosed, pageSize, closerPc>>
    /\ UNCHANGED <<queueVars, replicaVars, compactVars, poolVars, laterVars>>

\* TruncatePages: the pages taken out of the map are those whose file was removed
Removed(victims, removeFails) == victims \ removeFails

SizeAfterTruncateOfOne(removed) == size - pageSize

\* TruncatePages: f.size.Sub(pageSize) for every page taken out of the map
SizeAfterTruncate(removed) == size - pageSize * Cardinality(removed)

\* TruncatePages(index); removeFails are the pages whose removeFileFunc fails
TruncatePages(index, removeFails) ==
    /\ constructed = "ok"
    /\ IF factoryClosed
       THEN /\ removeFails = {}
            /\ UNCHANGED <<pages, size, diskFiles, pageCloses, closesByClose>>
       ELSE LET victims == { id \in DOMAIN pages : id < index }
                removed == Removed(victims, removeFails)
            IN  /\ removeFails \subseteq victims
                /\ \A id \in victims : pageCloses[pages[id]] < MaxPageCloses
                /\ diskFiles' = diskFiles \ { pageFileName(id) : id \in removed }
                /\ pages' = [id \in DOMAIN pages \ removed |-> pages[id]]
                /\ pageCloses' = [o \in PagesOf(pages') |->
                                     IF \E id \in victims : pages[id] = o
                                     THEN pageCloses[o] + 1 ELSE pageCloses[o]]
                /\ closesByClose' = CountsFor(closesByClose, pages')
                /\ size' = SizeAfterTruncate(removed)
    /\ acquireRet' = <<>>
    /\ UNCHANGED <<constructed, factoryClosed, pageSize, nextPage, closerPc>>
    /\ UNCHANGED <<queueVars, replicaVars, compactVars, poolVars, laterVars>>

CloseWinsAlways == TRUE

\* Close: f.closed.CompareAndSwap(false, true) succeeds
CloseWins == ~factoryClosed

\* Close, first step: the swap of f.closed; the loser returns nil at once
CloseSwap(c) ==
    /\ constructed = "ok"
    /\ closerPc[c] = "idle"
    /\ closerPc' = [closerPc EXCEPT ![c] = IF CloseWins THEN "locking" ELSE "returned"]
    /\ factoryClosed' = TRUE
    /\ acquireRet' = <<>>
    /\ UNCHANGED <<diskFiles, constructed, pages, size, pageSize, nextPage, pageCloses,
                   closesByClose>>
    /\ UNCHANGED <<queueVars, replicaVars, compactVars, poolVars, laterVars>>

\* Close, second step: under the mutex every page of the map is closed
CloseLocked(c) ==
    /\ closerPc[c] = "locking"
    /\ pageCloses' = [o \in PagesOf(pages) |-> pageCloses[o] + 1]
    /\ closesByClose' = [o \in PagesOf(pages) |-> closesByClose[o] + 1]
    /\ closerPc' = [closerPc EXCEPT ![c] = "returned"]
    /\ acquireRet' = <<>>
    /\ UNCHANGED <<diskFiles, constructed, pages, factoryClosed, size, pageSize, nextPage>>
    /\ UNCHANGED <<queueVars, replicaVars, compactVars, poolVars, laterVars>>

\* loadPages over the listed names: the fields after it, and how it ended
RECURSIVE loadPages(_, _, _)
loadPages(f, fileNames, mapOK) ==
    IF fileNames = <<>> THEN [f |-> f, end |-> "ok"]
    ELSE LET fn == Head(fileNames)
             to == IndexOfSuffix(fn) - 1
         IN  IF to < 0 THEN [f |-> f, end |-> "panic"]
             ELSE LET seq == ParseInt(SubSeq(fn, 1, to))
                  IN  IF seq = <<>> THEN [f |-> f, end |-> "err"]
                      ELSE LET g == Acquire(f, seq[1], mapOK)
                           IN  IF g.ret.err # "nil" THEN [f |-> g, end |-> "err"]
                               ELSE loadPages(g, Tail(fileNames), mapOK)

\* the orders in which listDirFunc can return the names of set S
Listings(S) ==
    { l \in [1..Cardinality(S) -> S] : \A i, j \in DOMAIN l : i # j => l[i] # l[j] }

\* NewFactory: loadPages, and on its error the Close of the half-built factory
NewFactory ==
    /\ constructed = "no"
    /\ \E fileNames \in Listings(diskFiles), mapOK \in BOOLEAN :
          LET r == loadPages(Fields, fileNames, mapOK)
          IN  /\ constructed' = r.end
              /\ pages' = r.f.pages
              /\ size' = r.f.size
              /\ nextPage' = r.f.next
              /\ diskFiles' = r.f.disk
              /\ factoryClosed' = (r.end = "err")
              /\ pageCloses' = [o \in PagesOf(r.f.pages) |-> IF r.end = "err" THEN 1 ELSE 0]
              /\ closesByClose' = [o \in PagesOf(r.f.pages) |-> IF r.end = "err" THEN 1 ELSE 0]
    /\ UNCHANGED <<pageSize, closerPc, acquireRet>>
    /\ UNCHANGED <<queueVars, replicaVars, compactVars, poolVars, laterVars>>

NextPage ==
    \/ NewFactory
    \/ \E index \in PageIds, mapOK \in BOOLEAN : AcquirePage(index, mapOK)
    \/ \E index \in 0..(MaxPageId + 1), removeFails \in SUBSET PageIds :
          TruncatePages(index, removeFails)
    \/ \E c \in Closers : CloseSwap(c)
    \/ \E c \in Closers : CloseLocked(c)

(***************************************************************************)
(* Part 5: goroutine pool                                                  *)
(*                                                                         *)
(* The goroutines are the dispatcher, the workers, the caller of Stop and  *)
(* one caller of Submit per task. A step of a goroutine is one channel     *)
(* operation or one atomic operation together with the local code up to    *)
(* the next one. A send on an unbuffered channel (worker.tasks,            *)
(* worker.stopCh, onDispatcherStopped) is one step with the receive.       *)
(***************************************************************************)

Tasks == 1..MaxTasks
\* identities of worker goroutines: one more than maxWorkers, so that a worker
\* beyond the limit would have an identity
Workers == 1..(MaxWorkers + 1)
\* the tasks submitted with a panicHandle
WithPanicHandle == {1}

PoolInit ==
    /\ poolStopped = FALSE
    /\ ctxDone = FALSE
    /\ taskQueue = <<>>
    /\ readyWorkers = <<>>
    /\ workersAlive = 0
    /\ tasksRejected = 0
    /\ dispPc = "select"
    /\ dispTask = 0
    /\ dispWorker = 0
    /\ workerPc = [w \in Workers |-> "none"]
    /\ workerTask = [w \in Workers |-> 0]
    /\ stopPc = "idle"
    /\ submitPc = [t \in Tasks |-> "idle"]
    /\ executed = {}
    /\ tasksPanic = 0
    /\ panicHandled = {}

\* Submit, first line: the task is dropped when the pool is stopped
SubmitCheck(t) ==
    /\ submitPc[t] = "idle"
    /\ submitPc' = [submitPc EXCEPT ![t] = IF poolStopped THEN "returned" ELSE "select"]
    /\ UNCHANGED <<poolStopped, ctxDone, taskQueue, readyWorkers, workersAlive, tasksRejected,
                   dispPc, dispTask, dispWorker, workerPc, workerTask, stopPc, executed>>
    /\ UNCHANGED <<tasksPanic, panicHandled>>
    /\ UNCHANGED <<queueVars, replicaVars, compactVars, pageVars, laterVars>>

\* Submit, the select: the caller's context is done, or the task is sent to p.tasks
SubmitSelect(t, callerDone) ==
    /\ submitPc[t] = "select"
    /\ IF callerDone
       THEN tasksRejected' = tasksRejected + 1 /\ UNCHANGED taskQueue
       ELSE /\ Len(taskQueue) < tasksCapacity
            /\ taskQueue' = Append(taskQueue, t)
            /\ UNCHANGED tasksRejected
    /\ submitPc' = [submitPc EXCEPT ![t] = "returned"]
    /\ UNCHANGED <<poolStopped, ctxDone, readyWorkers, workersAlive, dispPc, dispTask,
                   dispWorker, workerPc, workerTask, stopPc, executed>>
    /\ UNCHANGED <<tasksPanic, panicHandled>>
    /\ UNCHANGED <<queueVars, replicaVars, compactVars, pageVars, laterVars>>

\* dispatch, select case <-p.ctx.Done(): the dispatcher returns; its deferred
\* send on onDispatcherStopped waits for Stop
DispatchDone ==
    /\ dispPc = "select"
    /\ ctxDone
    /\ dispPc' = "exiting"
    /\ UNCHANGED <<poolStopped, ctxDone, taskQueue, readyWorkers, workersAlive, tasksRejected,
                   dispTask, dispWorker, workerPc, workerTask, stopPc, submitPc, executed>>
    /\ UNCHANGED <<tasksPanic, panicHandled>>
    /\ UNCHANGED <<queueVars, replicaVars, compactVars, pageVars, laterVars>>

\* dispatch, select case task = <-p.tasks
DispatchTake ==
    /\ dispPc = "select"
    /\ taskQueue # <<>>
    /\ dispTask' = Head(taskQueue)
    /\ taskQueue' = Tail(taskQueue)
    /\ dispPc' = "getWorker"
    /\ UNCHANGED <<poolStopped, ctxDone, readyWorkers, workersAlive, tasksRejected, dispWorker,
                   workerPc, workerTask, stopPc, submitPc, executed>>
    /\ UNCHANGED <<tasksPanic, panicHandled>>
    /\ UNCHANGED <<queueVars, replicaVars, compactVars, pageVars, laterVars>>

\* worker.stop after the send on stopCh: WorkersKilled.Incr(), WorkersAlive.Decr()
AliveAfterStopKept(alive) == alive
AliveAfterStop(alive) == alive - 1

\* dispatch, select case <-idleTimeoutTimer.C: idle() stops one ready worker
DispatchIdle ==
    /\ dispPc = "select"
    /\ workersAlive > 0
    /\ readyWorkers # <<>>
    /\ workerPc[Head(readyWorkers)] = "select"
    /\ readyWorkers' = Tail(readyWorkers)
    /\ workerPc' = [workerPc EXCEPT ![Head(readyWorkers)] = "stopped"]
    /\ workersAlive' = AliveAfterStop(workersAlive)
    /\ UNCHANGED <<poolStopped, ctxDone, taskQueue, tasksRejected, dispPc, dispTask, dispWorker,
                   workerTask, stopPc, submitPc, executed>>
    /\ UNCHANGED <<tasksPanic, panicHandled>>
    /\ UNCHANGED <<queueVars, replicaVars, compactVars, pageVars, laterVars>>

\* mustGetWorker, case worker = <-p.readyWorkers
GetReadyWorker ==
    /\ dispPc = "getWorker"
    /\ readyWorkers # <<>>
    /\ dispWorker' = Head(readyWorkers)
    /\ readyWorkers' = Tail(readyWorkers)
    /\ dispPc' = "execute"
    /\ UNCHANGED <<poolStopped, ctxDone, taskQueue, workersAlive, tasksRejected, dispTask,
                   workerPc, workerTask, stopPc, submitPc, executed>>
    /\ UNCHANGED <<tasksPanic, panicHandled>>
    /\ UNCHANGED <<queueVars, replicaVars, compactVars, pageVars, laterVars>>

\* mustGetWorker, default case: WorkersAlive.Get() >= maxWorkers sleeps and retries
BelowMaxWorkersAlways == TRUE
BelowMaxWorkers == workersAlive < MaxWorkers

\* mustGetWorker, default case below maxWorkers: newWorker starts a goroutine
NewWorker ==
    /\ dispPc = "getWorker"
    /\ readyWorkers = <<>>
    /\ BelowMaxWorkers
    /\ \E w \in Workers :
          /\ workerPc[w] \in {"none", "stopped"}
          /\ \A v \in Workers : v < w => workerPc[v] \notin {"none", "stopped"}
          /\ workerPc' = [workerPc EXCEPT ![w] = "select"]
          /\ dispWorker' = w
    /\ workersAlive' = workersAlive + 1
    /\ dispPc' = "execute"
    /\ UNCHANGED <<poolStopped, ctxDone, taskQueue, readyWorkers, tasksRejected, dispTask,
                   workerTask, stopPc, submitPc, executed>>
    /\ UNCHANGED <<tasksPanic, panicHandled>>
    /\ UNCHANGED <<queueVars, replicaVars, compactVars, pageVars, laterVars>>

\* worker.execute(task) meets the worker's select case task = <-w.tasks
Execute ==
    /\ dispPc = "execute"
    /\ workerPc[dispWorker] = "select"
    /\ workerPc' = [workerPc EXCEPT ![dispWorker] = "exec"]
    /\ workerTask' = [workerTask EXCEPT ![dispWorker] = dispTask]
    /\ dispTask' = 0
    /\ dispWorker' = 0
    /\ dispPc' = "select"
    /\ UNCHANGED <<poolStopped, ctxDone, taskQueue, readyWorkers, workersAlive, tasksRejected,
                   stopPc, submitPc, executed>>
    /\ UNCHANGED <<tasksPanic, panicHandled>>
    /\ UNCHANGED <<queueVars, replicaVars, compactVars, pageVars, laterVars>>

\* worker.process after execTask: the deferred recover of execTask has swallowed
\* a panic, so the loop goes on to w.pool.readyWorkers <- w either way
WorkerDiesOnPanic(panicked) == IF panicked THEN "stopped" ELSE "select"
WorkerAfterTask(panicked) == "select"

\* execTask, the deferred function: TasksPanic.Incr() and, when set, panicHandle(err)
PanicsAfter(task, panicked) == IF panicked THEN tasksPanic + 1 ELSE tasksPanic
HandledAfter(task, panicked) ==
    IF panicked /\ task \in WithPanicHandle THEN panicHandled \cup {task} ELSE panicHandled

\* worker.process: execTask returns, with or without a recovered panic, and the
\* worker registers itself as ready
WorkerFinish(w, panicked) ==
    /\ workerPc[w] = "exec"
    /\ Len(readyWorkers) < readyWorkerQueueSize
    /\ executed' = executed \cup {workerTask[w]}
    /\ tasksPanic' = PanicsAfter(workerTask[w], panicked)
    /\ panicHandled' = HandledAfter(workerTask[w], panicked)
    /\ workerTask' = [workerTask EXCEPT ![w] = 0]
    /\ workerPc' = [workerPc EXCEPT ![w] = WorkerAfterTask(panicked)]
    /\ readyWorkers' = IF WorkerAfterTask(panicked) = "select"
                          THEN Append(readyWorkers, w) ELSE readyWorkers
    /\ UNCHANGED <<poolStopped, ctxDone, taskQueue, workersAlive, tasksRejected, dispPc,
                   dispTask, dispWorker, stopPc, submitPc>>
    /\ UNCHANGED <<queueVars, replicaVars, compactVars, pageVars, laterVars>>

\* Stop: p.stopped.Swap(true); a second caller would return here
StopSwap ==
    /\ stopPc = "idle"
    /\ stopPc' = IF poolStopped THEN "done" ELSE "cancel"
    /\ poolStopped' = TRUE
    /\ UNCHANGED <<ctxDone, taskQueue, readyWorkers, workersAlive, tasksRejected, dispPc,
                   dispTask, dispWorker, workerPc, workerTask, submitPc, executed>>
    /\ UNCHANGED <<tasksPanic, panicHandled>>
    /\ UNCHANGED <<queueVars, replicaVars, compactVars, pageVars, laterVars>>

\* Stop: p.cancel()
StopCancel ==
    /\ stopPc = "cancel"
    /\ ctxDone' = TRUE
    /\ stopPc' = "wait"
    /\ UNCHANGED <<poolStopped, taskQueue, readyWorkers, workersAlive, tasksRejected, dispPc,
                   dispTask, dispWorker, workerPc, workerTask, submitPc, executed>>
    /\ UNCHANGED <<tasksPanic, panicHandled>>
    /\ UNCHANGED <<queueVars, replicaVars, compactVars, pageVars, laterVars>>

\* Stop: <-p.onDispatcherStopped meets the dispatcher's deferred send
StopWaitDispatcher ==
    /\ stopPc = "wait"
    /\ dispPc = "exiting"
    /\ dispPc' = "exited"
    /\ stopPc' = "workers"
    /\ UNCHANGED <<poolStopped, ctxDone, taskQueue, readyWorkers, workersAlive, tasksRejected,
                   dispTask, dispWorker, workerPc, workerTask, submitPc, executed>>
    /\ UNCHANGED <<tasksPanic, panicHandled>>
    /\ UNCHANGED <<queueVars, replicaVars, compactVars, pageVars, laterVars>>

\* stopWorkers, one round: a ready worker is received and stopped
StopWorker ==
    /\ stopPc = "workers"
    /\ workersAlive > 0
    /\ readyWorkers # <<>>
    /\ workerPc[Head(readyWorkers)] = "select"
    /\ readyWorkers' = Tail(readyWorkers)
    /\ workerPc' = [workerPc EXCEPT ![Head(readyWorkers)] = "stopped"]
    /\ workersAlive' = AliveAfterStop(workersAlive)
    /\ UNCHANGED <<poolStopped, ctxDone, taskQueue, tasksRejected, dispPc, dispTask, dispWorker,
                   workerTask, stopPc, submitPc, executed>>
    /\ UNCHANGED <<tasksPanic, panicHandled>>
    /\ UNCHANGED <<queueVars, replicaVars, compactVars, pageVars, laterVars>>

\* stopWorkers: no worker is alive, the loop ends
StopWorkersEnd ==
    /\ stopPc = "workers"
    /\ workersAlive = 0
    /\ stopPc' = "consume"
    /\ UNCHANGED <<poolStopped, ctxDone, taskQueue, readyWorkers, workersAlive, tasksRejected,
                   dispPc, dispTask, dispWorker, workerPc, workerTask, submitPc, executed>>
    /\ UNCHANGED <<tasksPanic, panicHandled>>
    /\ UNCHANGED <<queueVars, replicaVars, compactVars, pageVars, laterVars>>

\* consumedRemainingTasks, one round: a buffered task is executed by the caller
ConsumeRemaining(panicked) ==
    /\ stopPc = "consume"
    /\ taskQueue # <<>>
    /\ executed' = executed \cup {Head(taskQueue)}
    /\ tasksPanic' = PanicsAfter(Head(taskQueue), panicked)
    /\ panicHandled' = HandledAfter(Head(taskQueue), panicked)
    /\ taskQueue' = Tail(taskQueue)
    /\ UNCHANGED <<poolStopped, ctxDone, readyWorkers, workersAlive, tasksRejected, dispPc,
                   dispTask, dispWorker, workerPc, workerTask, stopPc, submitPc>>
    /\ UNCHANGED <<queueVars, replicaVars, compactVars, pageVars, laterVars>>

\* consumedRemainingTasks, default case: the channel is empty and Stop returns
StopReturn ==
    /\ stopPc = "consume"
    /\ taskQueue = <<>>
    /\ stopPc' = "done"
    /\ UNCHANGED <<poolStopped, ctxDone, taskQueue, readyWorkers, workersAlive, tasksRejected,
                   dispPc, dispTask, dispWorker, workerPc, workerTask, submitPc, executed>>
    /\ UNCHANGED <<tasksPanic, panicHandled>>
    /\ UNCHANGED <<queueVars, replicaVars, compactVars, pageVars, laterVars>>

NextPool ==
    \/ \E t \in Tasks : SubmitCheck(t)
    \/ \E t \in Tasks, callerDone \in BOOLEAN : SubmitSelect(t, callerDone)
    \/ DispatchDone
    \/ DispatchTake
    \/ DispatchIdle
    \/ GetReadyWorker
    \/ NewWorker
    \/ Execute
    \/ \E w \in Workers, panicked \in BOOLEAN : WorkerFinish(w, panicked)
    \/ StopSwap
    \/ StopCancel
    \/ StopWaitDispatcher
    \/ StopWorker
    \/ StopWorkersEnd
    \/ \E panicked \in BOOLEAN : ConsumeRemaining(panicked)
    \/ StopReturn

(***************************************************************************)
(* Part 6: SST mmap reader                                                 *)
(*                                                                         *)
(* A file is kept as what the reader decodes from it: the magic number,    *)
(* the two positions of the footer, and the results of decoding the        *)
(* offsets block and the keys bitmap. The entries block is the first       *)
(* posOfOffset bytes of the file; a value is the sequence of the byte      *)
(* positions it covers, so that two values are equal only when they are    *)
(* the same slice. The fixed-offset decoder and the roaring bitmap are     *)
(* libraries outside the repository.                                       *)
(***************************************************************************)

SstKeys == 1..MaxSstKey
\* len(fullBlock) - sstFileFooterSize
footerStart == MaxSstPos
\* a uint32 position read from the footer
SstPositions == 0..(MaxSstPos + 1)

SeqsUpTo(S, n) == UNION { [1..k -> S] : k \in 0..n }
\* FixedOffsetDecoder.Unmarshal: an error, or the start offsets of the entries
OffsetDecodings ==
    { [err |-> TRUE, v |-> <<>>] }
        \cup { [err |-> FALSE, v |-> o] : o \in SeqsUpTo(0..MaxSstPos, MaxSstKey) }
\* encoding.BitmapUnmarshal: an error, or the set of keys
KeyDecodings ==
    { [err |-> TRUE, v |-> {}] } \cup { [err |-> FALSE, v |-> k] : k \in SUBSET SstKeys }

SstFile(short, magic, po, pk, o, k) ==
    [short |-> short, empty |-> FALSE, magic |-> magic, posOfOffset |-> po,
     posOfKeys |-> pk, offsets |-> o, keys |-> k]
NoOffsets == [err |-> FALSE, v |-> <<>>]
NoKeys == [err |-> FALSE, v |-> {}]
\* a file shorter than the footer
ShortFile == SstFile(TRUE, FALSE, 0, 0, NoOffsets, NoKeys)
\* a file of length 0: mapFunc returns no data for it
EmptyFile == [ShortFile EXCEPT !.empty = TRUE]

\* initialize: intsAreSortedFunc([]int{0, posOfOffset, posOfKeys, footerStart})
PositionsSortedWithoutFooter(po, pk) == 0 <= po /\ po <= pk
PositionsSorted(po, pk) == 0 <= po /\ po <= pk /\ pk <= footerStart

\* The files opened. The parts a reader never decodes (everything behind a bad
\* magic number, the blocks behind bad positions) are kept at one value, and so
\* is posOfKeys where the blocks are decoded: once the positions are found in
\* order it only delimits the two blocks, whose decodings are drawn here.
SstFiles ==
    { ShortFile, EmptyFile, SstFile(FALSE, FALSE, 0, 0, NoOffsets, NoKeys) }
        \cup { SstFile(FALSE, TRUE, po, pk, NoOffsets, NoKeys) :
                 po \in SstPositions, pk \in SstPositions }
        \cup { SstFile(FALSE, TRUE, po, footerStart, o, k) :
                 po \in 0..footerStart, o \in OffsetDecodings, k \in KeyDecodings }

NilReader == [state |-> "nil", keys |-> {}, offsets |-> <<>>, entriesLen |-> 0]
NoGet == [key |-> 0, value |-> <<>>, err |-> "none"]
NoIterator == [pc |-> "none", keyPos |-> 0, idx |-> 0, key |-> 0]

NoRes == [file |-> FALSE, mapping |-> "none"]

SstInit ==
    /\ sstFile \in SstFiles
    /\ sstRes = NoRes
    /\ sstRet = "none"
    /\ sstReader = NilReader
    /\ getRet = NoGet
    /\ sstIt = NoIterator
    /\ visited = <<>>

\* storeMMapReader.initialize: the error it returns ("nil": none)
initialize(f) ==
    IF ~f.magic THEN "magic"
    ELSE IF ~PositionsSorted(f.posOfOffset, f.posOfKeys) THEN "footer"
    ELSE IF f.offsets.err THEN "offsets"
    ELSE IF f.keys.err THEN "keys"
    ELSE IF Len(f.offsets.v) # Cardinality(f.keys.v) THEN "count"
    ELSE "nil"

\* newMMapStoreReader: the error it returns
OpenErr(f, openOK, mapOK) ==
    IF ~openOK THEN "open"
    ELSE IF ~mapOK THEN "map"
    ELSE IF f.short THEN "short"
    ELSE initialize(f)

\* unmapFunc(f, data)
Unmapped(unmapOK) == IF unmapOK THEN "none" ELSE "unmapFailed"

\* newMMapStoreReader, the deferred function: only when err != nil and
\* len(data) > 0 it unmaps the data and closes the file. A failed mapFunc
\* returns no data.
ResAfterOpen(f, openOK, mapOK, unmapOK) ==
    IF ~openOK THEN NoRes
    ELSE IF ~mapOK \/ (f.short /\ f.empty) THEN [file |-> TRUE, mapping |-> "none"]
    ELSE IF OpenErr(f, openOK, mapOK) # "nil"
         THEN [file |-> FALSE, mapping |-> Unmapped(unmapOK)]
    ELSE [file |-> TRUE, mapping |-> "mapped"]

\* newMMapStoreReader(path, fileName)
newMMapStoreReader(openOK, mapOK, unmapOK) ==
    /\ sstRet = "none"
    /\ sstRet' = OpenErr(sstFile, openOK, mapOK)
    /\ sstRes' = ResAfterOpen(sstFile, openOK, mapOK, unmapOK)
    /\ sstReader' = IF OpenErr(sstFile, openOK, mapOK) = "nil"
                      THEN [state |-> "open", keys |-> sstFile.keys.v,
                            offsets |-> sstFile.offsets.v,
                            entriesLen |-> sstFile.posOfOffset]
                      ELSE NilReader
    /\ UNCHANGED <<sstFile, getRet, sstIt, visited>>
    /\ UNCHANGED <<queueVars, replicaVars, compactVars, pageVars, poolVars, cacheVars, metaVars, restVars>>

\* dataBlock[from:to] as the byte positions it covers
Slice(from, to) == [i \in 1..(to - from) |-> from + i]

\* FixedOffsetDecoder.GetBlock(idx, dataBlock), idx counted from 0: the block
\* runs from its offset to the next offset, the last one to the end of the data
GetBlock(offsets, idx, len) ==
    IF idx < 0 \/ idx >= Len(offsets) THEN [value |-> <<>>, err |-> "corrupted"]
    ELSE LET from == offsets[idx + 1]
             to == IF idx + 1 < Len(offsets) THEN offsets[idx + 2] ELSE len
         IN  IF from > to \/ to > len THEN [value |-> <<>>, err |-> "corrupted"]
             ELSE [value |-> Slice(from, to), err |-> "nil"]

\* storeMMapReader.getBlock
getBlock(r, idx) == GetBlock(r.offsets, idx, r.entriesLen)

\* roaring Bitmap.Rank(key): the number of keys smaller than or equal to key
Rank(keys, key) == Cardinality({ k \in keys : k <= key })

\* Get: idx := r.keys.Rank(key); r.getBlock(int(idx) - 1)
BlockIndexFromOne(r, key) == Rank(r.keys, key)
BlockIndex(r, key) == Rank(r.keys, key) - 1

\* storeMMapReader.Get(key)
Get(r, key) ==
    IF key \notin r.keys THEN [value |-> <<>>, err |-> "ErrKeyNotExist"]
    ELSE getBlock(r, BlockIndex(r, key))

GetKey(key) ==
    /\ sstReader.state # "nil"
    /\ getRet' = [key |-> key, value |-> Get(sstReader, key).value,
                  err |-> Get(sstReader, key).err]
    /\ UNCHANGED <<sstFile, sstRes, sstRet, sstReader, sstIt, visited>>
    /\ UNCHANGED <<queueVars, replicaVars, compactVars, pageVars, poolVars, cacheVars, metaVars, restVars>>

\* storeMMapReader.Iterator: newMMapIterator(r)
Iterator ==
    /\ sstReader.state # "nil"
    /\ sstIt.pc = "none"
    /\ sstIt' = [NoIterator EXCEPT !.pc = "hasNext"]
    /\ UNCHANGED <<sstFile, sstRes, sstRet, sstReader, getRet, visited>>
    /\ UNCHANGED <<queueVars, replicaVars, compactVars, pageVars, poolVars, cacheVars, metaVars, restVars>>

\* storeMMapIterator.HasNext: keyIt.HasNext()
HasNext ==
    /\ sstIt.pc = "hasNext"
    /\ sstIt' = [sstIt EXCEPT !.pc = IF sstIt.keyPos < Cardinality(sstReader.keys)
                                       THEN "key" ELSE "done"]
    /\ UNCHANGED <<sstFile, sstRes, sstRet, sstReader, getRet, visited>>
    /\ UNCHANGED <<queueVars, replicaVars, compactVars, pageVars, poolVars, cacheVars, metaVars, restVars>>

\* the n-th key of the bitmap's iterator, which runs in ascending order
NthKey(keys, n) == CHOOSE k \in keys : Rank(keys, k) = n

\* storeMMapIterator.Key: keyIt.Next()
Key ==
    /\ sstIt.pc = "key"
    /\ sstIt' = [sstIt EXCEPT !.pc = "value", !.keyPos = @ + 1,
                              !.key = NthKey(sstReader.keys, sstIt.keyPos + 1)]
    /\ UNCHANGED <<sstFile, sstRes, sstRet, sstReader, getRet, visited>>
    /\ UNCHANGED <<queueVars, replicaVars, compactVars, pageVars, poolVars, cacheVars, metaVars, restVars>>

\* storeMMapIterator.Value: getBlock(it.idx) with its error dropped, it.idx++
Value ==
    /\ sstIt.pc = "value"
    /\ visited' = Append(visited, <<sstIt.key, getBlock(sstReader, sstIt.idx).value>>)
    /\ sstIt' = [sstIt EXCEPT !.pc = "hasNext", !.idx = @ + 1]
    /\ UNCHANGED <<sstFile, sstRes, sstRet, sstReader, getRet>>
    /\ UNCHANGED <<queueVars, replicaVars, compactVars, pageVars, poolVars, cacheVars, metaVars, restVars>>

\* storeMMapReader.Close: r.entriesBlock = nil, the file is unmapped and closed
CloseReader(unmapOK) ==
    /\ sstReader.state = "open"
    /\ sstReader' = [sstReader EXCEPT !.state = "closed", !.entriesLen = 0]
    /\ sstRes' = [file |-> FALSE, mapping |-> Unmapped(unmapOK)]
    /\ UNCHANGED <<sstFile, sstRet, getRet, sstIt, visited>>
    /\ UNCHANGED <<queueVars, replicaVars, compactVars, pageVars, poolVars, cacheVars, metaVars, restVars>>

NextSst ==
    \/ \E openOK \in BOOLEAN, mapOK \in BOOLEAN, unmapOK \in BOOLEAN :
          newMMapStoreReader(openOK, mapOK, unmapOK)
    \/ \E key \in SstKeys : GetKey(key)
    \/ Iterator
    \/ HasNext
    \/ Key
    \/ Value
    \/ \E unmapOK \in BOOLEAN : CloseReader(unmapOK)


(***************************************************************************)
(* Part 7: SST reader cache                                                *)
(*                                                                         *)
(* The cache keeps one entry per file name: the open reader, the number of *)
(* references handed out and not released, and the time of the last        *)
(* GetReader. The clock is a tick that ages every entry. Callers release   *)
(* only readers they hold, and a file removed by Evict has been deleted    *)
(* and is not asked for again.                                             *)
(***************************************************************************)

\* the files read through the cache: the entries of two files share nothing but
\* the clock and the Cleanup that visits them
CacheFiles == {1, 2}
NoItem == [cached |-> FALSE, refs |-> 0, idle |-> 0]

CacheInit ==
    /\ cacheItems = [f \in CacheFiles |-> NoItem]
    /\ held = [f \in CacheFiles |-> 0]
    /\ readersMade = [f \in CacheFiles |-> 0]
    /\ readerCloses = [f \in CacheFiles |-> 0]
    /\ evicted = {}
    /\ kept = {}

\* Cache.GetReader(family, fileName): the cached reader, or a reader opened by
\* newMMapStoreReaderFunc; an error of the latter leaves the cache as it was
GetReader(f, openOK) ==
    /\ f \notin evicted
    /\ held[f] < MaxRefs
    /\ ~cacheItems[f].cached => readersMade[f] < MaxReaders
    /\ IF cacheItems[f].cached
         THEN /\ cacheItems' = [cacheItems EXCEPT ![f].refs = @ + 1, ![f].idle = 0]
              /\ held' = [held EXCEPT ![f] = @ + 1]
              /\ UNCHANGED <<readersMade, readerCloses>>
         ELSE IF openOK
         THEN /\ cacheItems' = [cacheItems EXCEPT ![f] = [cached |-> TRUE, refs |-> 1, idle |-> 0]]
              /\ held' = [held EXCEPT ![f] = 1]
              /\ readersMade' = [readersMade EXCEPT ![f] = @ + 1]
              /\ readerCloses' = [readerCloses EXCEPT ![f] = 0]
         ELSE UNCHANGED <<cacheItems, held, readersMade, readerCloses>>
    /\ UNCHANGED <<evicted, kept>>
    /\ UNCHANGED <<queueVars, replicaVars, compactVars, pageVars, poolVars, sstVars, metaVars, restVars>>

\* Cache.ReleaseReaders(readers), for one reader: the entry found under the
\* reader's FileName loses one reference
ReleaseReaders(f) ==
    /\ held[f] > 0
    /\ held' = [held EXCEPT ![f] = @ - 1]
    /\ cacheItems' = IF cacheItems[f].cached /\ cacheItems[f].refs > 0
                       THEN [cacheItems EXCEPT ![f].refs = @ - 1]
                       ELSE cacheItems
    /\ UNCHANGED <<readersMade, readerCloses, evicted, kept>>
    /\ UNCHANGED <<queueVars, replicaVars, compactVars, pageVars, poolVars, sstVars, metaVars, restVars>>

\* time passes: every entry has been idle for one more tick
Tick ==
    /\ \E f \in CacheFiles : cacheItems[f].cached /\ cacheItems[f].idle <= CacheTtl
    /\ cacheItems' = [f \in CacheFiles |->
                        IF cacheItems[f].cached /\ cacheItems[f].idle <= CacheTtl
                          THEN [cacheItems[f] EXCEPT !.idle = @ + 1]
                          ELSE cacheItems[f]]
    /\ UNCHANGED <<held, readersMade, readerCloses, evicted, kept>>
    /\ UNCHANGED <<queueVars, replicaVars, compactVars, pageVars, poolVars, sstVars, metaVars, restVars>>

\* Cleanup: an entry is closed when nobody refers to it and it has been idle
\* for longer than the ttl
ExpiredIgnoringRefs(item) == item.cached /\ item.idle > CacheTtl
Expired(item) == item.cached /\ item.refs = 0 /\ item.idle > CacheTtl

\* Cache.Cleanup: every expired entry is closed and removed
CacheCleanup ==
    /\ \E f \in CacheFiles : cacheItems[f].cached
    /\ cacheItems' = [f \in CacheFiles |->
                        IF Expired(cacheItems[f]) THEN NoItem ELSE cacheItems[f]]
    /\ readerCloses' = [f \in CacheFiles |->
                          IF Expired(cacheItems[f]) THEN readerCloses[f] + 1
                          ELSE readerCloses[f]]
    /\ kept' = kept \cup { f \in CacheFiles :
                             /\ cacheItems[f].cached /\ cacheItems[f].idle > CacheTtl
                             /\ ~Expired(cacheItems[f]) }
    /\ UNCHANGED <<held, readersMade, evicted>>
    /\ UNCHANGED <<queueVars, replicaVars, compactVars, pageVars, poolVars, sstVars, metaVars, restVars>>

\* Cache.Evict(fileName): the reader of a deleted file is closed and removed,
\* whatever Close returns; a name that is not cached is ignored
Evict(f) ==
    /\ f \notin evicted
    /\ evicted' = evicted \cup {f}
    /\ cacheItems' = [cacheItems EXCEPT ![f] = NoItem]
    /\ readerCloses' = IF cacheItems[f].cached
                         THEN [readerCloses EXCEPT ![f] = @ + 1] ELSE readerCloses
    /\ UNCHANGED <<held, readersMade, kept>>
    /\ UNCHANGED <<queueVars, replicaVars, compactVars, pageVars, poolVars, sstVars, metaVars, restVars>>

NextCache ==
    \/ \E f \in CacheFiles, openOK \in BOOLEAN : GetReader(f, openOK)
    \/ \E f \in CacheFiles : ReleaseReaders(f)
    \/ Tick
    \/ CacheCleanup
    \/ \E f \in CacheFiles : Evict(f)

(***************************************************************************)
(* Part 8: memory metadata database                                        *)
(*                                                                         *)
(* The goroutines are one caller of Notify per event, the handle goroutine *)
(* started by NewMetadataDatabase, and one handleFlush goroutine per flush *)
(* event. A step is one channel operation and the local code up to the     *)
(* next one; the calls on metaDB are logged in the order they are made.    *)
(***************************************************************************)

MetaEvents == 1..MaxEvents
\* the events with an even number are flush events, the others are rows
IsFlush(e) == e % 2 = 0
FlushEvents == { e \in MetaEvents : IsFlush(e) }

MetaInit ==
    /\ notifyPc = [e \in MetaEvents |-> "idle"]
    /\ metaCh = <<>>
    /\ accepted = <<>>
    /\ workerEvent = 0
    /\ handled = <<>>
    /\ calls = <<>>
    /\ flushPc = [e \in FlushEvents |-> "none"]
    /\ flushErr = [e \in FlushEvents |-> "none"]

\* the process runs until a goroutine panics
MetaRunning == metaPanic = "none"

\* Notify is called: the caller reaches mdb.ch <- event
NotifyCall(e) ==
    /\ MetaRunning
    /\ notifyPc[e] = "idle"
    /\ notifyPc' = [notifyPc EXCEPT ![e] = "sending"]
    /\ UNCHANGED <<metaCh, accepted, workerEvent, handled, calls, flushPc, flushErr>>
    /\ UNCHANGED <<queueVars, replicaVars, compactVars, pageVars, poolVars, sstVars, cacheVars, restVars>>

\* a send on the buffered channel completes only while the buffer has room
HasRoom == Len(metaCh) < ChanCapacity

\* Notify: mdb.ch <- event completes and Notify returns
NotifySend(e) ==
    /\ MetaRunning
    /\ notifyPc[e] = "sending"
    /\ metaClosed = 0
    /\ HasRoom
    /\ metaCh' = Append(metaCh, e)
    /\ accepted' = Append(accepted, e)
    /\ notifyPc' = [notifyPc EXCEPT ![e] = "returned"]
    /\ UNCHANGED <<workerEvent, handled, calls, flushPc, flushErr>>
    /\ UNCHANGED <<queueVars, replicaVars, compactVars, pageVars, poolVars, sstVars, cacheVars, restVars>>

\* handle: for e := range mdb.ch receives the oldest event of the channel
ReceivedLast(ch) == ch[Len(ch)]
Received(ch) == Head(ch)
Remaining(ch) == SelectSeq(ch, LAMBDA x : x # Received(ch))

Receive ==
    /\ MetaRunning
    /\ workerEvent = 0
    /\ metaCh # <<>>
    /\ workerEvent' = Received(metaCh)
    /\ metaCh' = Remaining(metaCh)
    /\ UNCHANGED <<notifyPc, accepted, handled, calls, flushPc, flushErr>>
    /\ UNCHANGED <<queueVars, replicaVars, compactVars, pageVars, poolVars, sstVars, cacheVars, restVars>>

\* handle, case *metric.StorageRow: handleRow(event)
HandleRow ==
    /\ MetaRunning
    /\ workerEvent # 0
    /\ ~IsFlush(workerEvent)
    /\ calls' = Append(calls, <<"handleRow", workerEvent, "nil">>)
    /\ handled' = Append(handled, workerEvent)
    /\ workerEvent' = 0
    /\ UNCHANGED <<notifyPc, metaCh, accepted, flushPc, flushErr>>
    /\ UNCHANGED <<queueVars, replicaVars, compactVars, pageVars, poolVars, sstVars, cacheVars, restVars>>

\* handle, case *FlushEvent: metaDB.PrepareFlush(), then go handleFlush(event)
HandleFlushEvent ==
    /\ MetaRunning
    /\ workerEvent # 0
    /\ IsFlush(workerEvent)
    /\ calls' = Append(calls, <<"PrepareFlush", workerEvent, "nil">>)
    /\ flushPc' = [flushPc EXCEPT ![workerEvent] = "flush"]
    /\ handled' = Append(handled, workerEvent)
    /\ workerEvent' = 0
    /\ UNCHANGED <<notifyPc, metaCh, accepted, flushErr>>
    /\ UNCHANGED <<queueVars, replicaVars, compactVars, pageVars, poolVars, sstVars, cacheVars, restVars>>

\* handleFlush: err := mdb.metaDB.Flush()
Flush(e, err) ==
    /\ MetaRunning
    /\ flushPc[e] = "flush"
    /\ calls' = Append(calls, <<"Flush", e, err>>)
    /\ flushErr' = [flushErr EXCEPT ![e] = err]
    /\ flushPc' = [flushPc EXCEPT ![e] = "callback"]
    /\ UNCHANGED <<notifyPc, metaCh, accepted, workerEvent, handled>>
    /\ UNCHANGED <<queueVars, replicaVars, compactVars, pageVars, poolVars, sstVars, cacheVars, restVars>>

\* handleFlush: event.Callback(err)
CallbackArgNil(err) == "nil"
CallbackArg(err) == err

\* handleFlush: the callback is invoked, then the expired metric stores are collected
Callback(e) ==
    /\ MetaRunning
    /\ flushPc[e] = "callback"
    /\ calls' = Append(calls, <<"Callback", e, CallbackArg(flushErr[e])>>)
    /\ flushPc' = [flushPc EXCEPT ![e] = "done"]
    /\ UNCHANGED <<notifyPc, metaCh, accepted, workerEvent, handled, flushErr>>
    /\ UNCHANGED <<queueVars, replicaVars, compactVars, pageVars, poolVars, sstVars, cacheVars, restVars>>

NextMeta ==
    \/ \E e \in MetaEvents : NotifyCall(e)
    \/ \E e \in MetaEvents : NotifySend(e)
    \/ Receive
    \/ HandleRow
    \/ HandleFlushEvent
    \/ \E e \in FlushEvents, err \in {"nil", "err"} : Flush(e, err)
    \/ \E e \in FlushEvents : Callback(e)

(***************************************************************************)
(* Part 9: lifecycle of the memory metadata database                       *)
(*                                                                         *)
(* Close is close(mdb.ch) and nothing else, and Notify is the send and     *)
(* nothing else. Go panics on a send on a closed channel, also when the    *)
(* sender was already waiting in the send, and on a close of a closed      *)
(* channel. The handle goroutine drains a closed channel and then leaves   *)
(* its loop.                                                               *)
(***************************************************************************)

LifeInit ==
    /\ metaClosed = 0
    /\ closeCalls = 0
    /\ metaPanic = "none"

\* Close: close(mdb.ch)
Close ==
    /\ MetaRunning
    /\ closeCalls < MaxCloseCalls
    /\ closeCalls' = closeCalls + 1
    /\ IF metaClosed = 0
       THEN metaClosed' = 1 /\ UNCHANGED metaPanic
       ELSE metaPanic' = "close of closed channel" /\ UNCHANGED metaClosed
    /\ UNCHANGED metaVars
    /\ UNCHANGED exceptLife

\* Notify: mdb.ch <- event on the closed channel
NotifyOnClosed(e) ==
    /\ MetaRunning
    /\ notifyPc[e] = "sending"
    /\ metaClosed > 0
    /\ metaPanic' = "send on closed channel"
    /\ UNCHANGED <<metaClosed, closeCalls>>
    /\ UNCHANGED metaVars
    /\ UNCHANGED exceptLife

NextMetaLife ==
    \/ NextMeta
    \/ Close
    \/ \E e \in MetaEvents : NotifyOnClosed(e)

(***************************************************************************)
(* Part 10: metric stores of the memory metadata database                  *)
(*                                                                         *)
(* Every caller of GetOrCreateMetricMeta is a goroutine of its own. The    *)
(* first Load on the sync.Map is one step, taking mdb.lock is one step,    *)
(* and the code under the lock up to the deferred Unlock is one step.      *)
(***************************************************************************)

GetCallers == 1..MaxCallers
\* the name hashes of the rows
NameHashes == {1, 2}
NoOut == [store |-> 0, isNew |-> FALSE]

GetInit ==
    /\ metricMetadatas = [h \in NameHashes |-> 0]
    /\ mdbLock = 0
    /\ getPc = [c \in GetCallers |-> "idle"]
    /\ getHash = [c \in GetCallers |-> 0]
    /\ getOut = [c \in GetCallers |-> NoOut]
    /\ tookLock = {}
    /\ createdFor = <<>>

\* GetOrCreateMetricMeta(row): hash := row.NameHash() and the Load without the lock
GetOrCreateMetricMeta(c, hash) ==
    /\ getPc[c] = "idle"
    /\ getHash' = [getHash EXCEPT ![c] = hash]
    /\ IF metricMetadatas[hash] # 0
       THEN /\ getOut' = [getOut EXCEPT ![c] = [store |-> metricMetadatas[hash], isNew |-> FALSE]]
            /\ getPc' = [getPc EXCEPT ![c] = "returned"]
       ELSE /\ getPc' = [getPc EXCEPT ![c] = "lock"]
            /\ UNCHANGED getOut
    /\ UNCHANGED <<metricMetadatas, mdbLock, tookLock, createdFor>>
    /\ UNCHANGED exceptGet

\* GetOrCreateMetricMeta: mdb.lock.Lock()
LockMdb(c) ==
    /\ getPc[c] = "lock"
    /\ mdbLock = 0
    /\ mdbLock' = c
    /\ tookLock' = tookLock \cup {c}
    /\ getPc' = [getPc EXCEPT ![c] = "locked"]
    /\ UNCHANGED <<metricMetadatas, getHash, getOut, createdFor>>
    /\ UNCHANGED exceptGet

\* getOrCreateMetricMeta: the Load made under the lock
LoadUnderLockMisses(hash) == 0
LoadUnderLock(hash) == metricMetadatas[hash]

\* getOrCreateMetricMeta(hash) under the lock, then the deferred Unlock
getOrCreateMetricMeta(c) ==
    /\ getPc[c] = "locked"
    /\ mdbLock = c
    /\ LET hash == getHash[c]
           newStore == Len(createdFor) + 1
       IN  IF LoadUnderLock(hash) # 0
           THEN /\ getOut' = [getOut EXCEPT ![c] = [store |-> LoadUnderLock(hash),
                                                    isNew |-> FALSE]]
                /\ UNCHANGED <<metricMetadatas, createdFor>>
           ELSE /\ createdFor' = Append(createdFor, hash)
                /\ metricMetadatas' = [metricMetadatas EXCEPT ![hash] = newStore]
                /\ getOut' = [getOut EXCEPT ![c] = [store |-> newStore, isNew |-> TRUE]]
    /\ mdbLock' = 0
    /\ getPc' = [getPc EXCEPT ![c] = "returned"]
    /\ UNCHANGED <<getHash, tookLock>>
    /\ UNCHANGED exceptGet

NextGet ==
    \/ \E c \in GetCallers, hash \in NameHashes : GetOrCreateMetricMeta(c, hash)
    \/ \E c \in GetCallers : LockMdb(c)
    \/ \E c \in GetCallers : getOrCreateMetricMeta(c)

(***************************************************************************)
(* Part 11: WAL configuration (src/unnamed/part_007)                       *)
(***************************************************************************)

MiB == 1024 * 1024
\* the page sizes a configuration may carry: negative, unset, and the multiples
\* of 64 MiB with the byte after each
ConfiguredPageSizes == {-1} \cup { k * 64 * MiB + d : k \in 0..MaxPageSteps, d \in {0, 1} }

WalInit ==
    /\ walPageSize = 0
    /\ walRet = 0

\* the storage configuration is loaded with page-size = configured
LoadWAL(configured) ==
    /\ walPageSize' = configured
    /\ UNCHANGED walRet
    /\ UNCHANGED exceptWal

\* WAL.GetPageSize()
GetPageSize(PageSize) ==
    IF PageSize <= 0 THEN 128 * 1024 * 1024
    ELSE IF PageSize >= 1024 * 1024 * 1024 THEN 1024 * 1024 * 1024
    ELSE PageSize

\* the engine asks for the page size
CallGetPageSize ==
    /\ walRet' = GetPageSize(walPageSize)
    /\ UNCHANGED walPageSize
    /\ UNCHANGED exceptWal

NextWal ==
    \/ \E configured \in ConfiguredPageSizes : LoadWAL(configured)
    \/ CallGetPageSize

(***************************************************************************)
(* Part 12: KV store manager (src/unnamed/part_005)                        *)
(*                                                                         *)
(* Every call is a goroutine of its own, all on one store name. The code   *)
(* between a Lock of s.mutex and its Unlock is one step.                   *)
(***************************************************************************)

MgrCallers == 1..MaxMgrCallers
StoreIds == 1..MaxMgrCallers

MgrInit ==
    /\ stores = 0
    /\ storesMade = 0
    /\ storeCloses = [i \in StoreIds |-> 0]
    /\ mgrPc = [c \in MgrCallers |-> "idle"]
    /\ mgrStore = [c \in MgrCallers |-> 0]

\* CreateStore(name, option), all of it under s.mutex; newOK is whether
\* newStoreFunc succeeds
CreateStore(c, newOK) ==
    /\ mgrPc[c] = "idle"
    /\ IF stores # 0
       THEN /\ mgrStore' = [mgrStore EXCEPT ![c] = stores]
            /\ UNCHANGED <<stores, storesMade>>
       ELSE IF ~newOK
       THEN UNCHANGED <<stores, storesMade, mgrStore>>
       ELSE /\ storesMade' = storesMade + 1
            /\ stores' = storesMade'
            /\ mgrStore' = [mgrStore EXCEPT ![c] = storesMade']
    /\ mgrPc' = [mgrPc EXCEPT ![c] = "returned"]
    /\ UNCHANGED storeCloses
    /\ UNCHANGED exceptMgr

\* GetStoreByName(name), under s.mutex
GetStoreByName == stores

\* CloseStore(name): the lookup; the mutex is released when GetStoreByName returns
CloseStoreLookup(c) ==
    /\ mgrPc[c] = "idle"
    /\ mgrStore' = [mgrStore EXCEPT ![c] = GetStoreByName]
    /\ mgrPc' = [mgrPc EXCEPT ![c] = IF GetStoreByName = 0 THEN "returned" ELSE "closing"]
    /\ UNCHANGED <<stores, storesMade, storeCloses>>
    /\ UNCHANGED exceptMgr

\* CloseStore(name): under s.mutex again, delete(s.stores, name) and store.close()
CloseStore(c) ==
    /\ mgrPc[c] = "closing"
    /\ stores' = 0
    /\ storeCloses' = [storeCloses EXCEPT ![mgrStore[c]] = @ + 1]
    /\ mgrPc' = [mgrPc EXCEPT ![c] = "returned"]
    /\ UNCHANGED <<storesMade, mgrStore>>
    /\ UNCHANGED exceptMgr

NextMgr ==
    \/ \E c \in MgrCallers, newOK \in BOOLEAN : CreateStore(c, newOK)
    \/ \E c \in MgrCallers : CloseStoreLookup(c)
    \/ \E c \in MgrCallers : CloseStore(c)

(***************************************************************************)
(* Part 13: tag values lookup (src/query/operator/tag_values_lookup.go)    *)
(*                                                                         *)
(* An expression is a record: kind "nil" | "tag" | "paren" | "not" |       *)
(* "binary", the tag key of a tag filter, the operator of a binary         *)
(* expression, and the operands in args. The tag filters stand for         *)
(* EqualsExpr, InExpr, LikeExpr and RegexExpr; two filters are the same    *)
(* filter when their Rewrite() strings are equal.                          *)
(***************************************************************************)

CondTagKeys == {1, 2}
\* stmt.AND, stmt.OR and one of the arithmetic operators
BinaryOperators == {"AND", "OR", "ADD"}

NilExpr == [kind |-> "nil", key |-> 0, op |-> "", args |-> <<>>]
TagFilter(k) == [kind |-> "tag", key |-> k, op |-> "", args |-> <<>>]
ParenExpr(e) == [kind |-> "paren", key |-> 0, op |-> "", args |-> <<e>>]
NotExpr(e) == [kind |-> "not", key |-> 0, op |-> "", args |-> <<e>>]
BinaryExpr(o, l, r) == [kind |-> "binary", key |-> 0, op |-> o, args |-> <<l, r>>]

\* the expressions made of n nodes
RECURSIVE ExprsOfSize(_)
ExprsOfSize(n) ==
    IF n = 1 THEN { TagFilter(k) : k \in CondTagKeys }
    ELSE { ParenExpr(e) : e \in ExprsOfSize(n - 1) }
         \cup { NotExpr(e) : e \in ExprsOfSize(n - 1) }
         \cup UNION { { BinaryExpr(o, l, r) : o \in BinaryOperators, l \in ExprsOfSize(i),
                                               r \in ExprsOfSize(n - 1 - i) }
                      : i \in 1..(n - 2) }

Conditions == {NilExpr} \cup UNION { ExprsOfSize(n) : n \in 1..MaxExprNodes }

TvInit ==
    /\ condition \in Conditions
    /\ schemaTagKeys \in {{1}, {1, 2}}
    /\ failingTagKeys \in {{}, {1}}
    /\ tvPc = "ready"
    /\ tvErr = "none"
    /\ TagFilterResult = {}

\* TagFilter.Rewrite(): the text of the filter
Rewrite(expr) == <<"tag", expr.key>>
\* the id the schema gives to a tag key
TagKeyID(k) == 10 + k

\* findTagValueIDsByExpr, case *stmt.BinaryExpr: the operators it goes on with
AnyOperatorAccepted(o) == TRUE
OperatorAccepted(o) == ~(o # "AND" /\ o # "OR")

\* findTagValueIDsByExpr(expr) on the operator's state st: err and result
RECURSIVE findTagValueIDsByExpr(_, _)
findTagValueIDsByExpr(expr, st) ==
    IF expr.kind = "nil" THEN st
    ELSE IF st.err # "nil" THEN st
    ELSE CASE expr.kind = "tag" ->
                IF expr.key \notin schemaTagKeys
                THEN [st EXCEPT !.err = "ErrTagKeyIDNotFound"]
                ELSE IF expr.key \in failingTagKeys
                THEN [st EXCEPT !.err = "FindTagValueDsByExpr"]
                ELSE [st EXCEPT !.result =
                         { x \in @ : x.key # Rewrite(expr) }
                             \cup {[key |-> Rewrite(expr), TagKeyID |-> TagKeyID(expr.key)]}]
           [] expr.kind \in {"paren", "not"} -> findTagValueIDsByExpr(expr.args[1], st)
           [] expr.kind = "binary" ->
                IF ~OperatorAccepted(expr.op)
                THEN [st EXCEPT !.err = "wrong binary operator"]
                ELSE findTagValueIDsByExpr(expr.args[2],
                                           findTagValueIDsByExpr(expr.args[1], st))

\* tagValuesLookup.Execute()
ExecuteTagValuesLookup ==
    /\ tvPc = "ready"
    /\ LET st == findTagValueIDsByExpr(condition, [err |-> "nil", result |-> {}])
       IN  /\ tvErr' = st.err
           /\ TagFilterResult' = st.result
    /\ tvPc' = "done"
    /\ UNCHANGED <<condition, schemaTagKeys, failingTagKeys>>
    /\ UNCHANGED exceptTv

NextTv == ExecuteTagValuesLookup

(***************************************************************************)
(* Part 14: metadata lookup (src/query/operator/metadata_lookup.go)        *)
(*                                                                         *)
(* A select item is a field expression, alone or as the parameter of a     *)
(* function call; funcOK is whether the field's type has a default down    *)
(* sampling function, or supports the function of the call.                *)
(***************************************************************************)

NilSchema == [nil |-> TRUE, Fields |-> {}, TagKeys |-> {}]
Schemas == {NilSchema}
               \cup { [nil |-> FALSE, Fields |-> f, TagKeys |-> t] :
                        f \in {{}, {1}, {1, 2}}, t \in {{}, {1}} }
SelectItem == [field : {1, 2}, funcOK : BOOLEAN]

\* a query has all-fields (select *) or a list of select items
MlInit ==
    /\ mlMetaErr \in {"nil", "GetMetricID", "GetSchema"}
    /\ mlSchema \in Schemas
    /\ mlMetaErr # "nil" => mlSchema = NilSchema
    /\ mlGroupBy \in SeqsUpTo({1, 2}, MaxGroupBy)
    /\ mlAllFields \in BOOLEAN
    /\ mlSelectItems \in SeqsUpTo(SelectItem, MaxSelectItems)
    /\ mlAllFields => mlSelectItems = <<>>
    /\ mlPc = "ready"
    /\ mlErr = "none"

\* Schema.TagKeys.Find(tagKey)
TagKeysFindAny(tagKey) == TRUE
TagKeysFind(tagKey) == tagKey \in mlSchema.TagKeys

\* groupBy(): the error of the first group-by tag key the schema does not have
groupBy ==
    IF Len(mlGroupBy) = 0 THEN "nil"
    ELSE IF \E idx \in DOMAIN mlGroupBy : ~TagKeysFind(mlGroupBy[idx])
    THEN "ErrTagKeyIDNotFound"
    ELSE "nil"

\* field(nil, selectItem) and planField: the error one select item sets in op.err
FieldErr(item) ==
    IF item.field \notin mlSchema.Fields THEN "ErrFieldNotFound"
    ELSE IF ~item.funcOK THEN "function not supported"
    ELSE "nil"

\* selectList(): with all-fields every field of the schema is planned and nil
\* is returned; otherwise the first item that sets op.err ends the loop
selectList ==
    IF mlAllFields THEN "nil"
    ELSE IF Len(mlSelectItems) = 0 THEN "ErrEmptySelectList"
    ELSE LET bad == { i \in DOMAIN mlSelectItems : FieldErr(mlSelectItems[i]) # "nil" }
         IN  IF bad = {} THEN "nil"
             ELSE FieldErr(mlSelectItems[CHOOSE i \in bad : \A j \in bad : i <= j])

\* metadataLookup.Execute()
ExecuteResult ==
    IF mlMetaErr # "nil" THEN mlMetaErr
    ELSE IF mlSchema.nil THEN "ErrMetricIDNotFound"
    ELSE IF mlSchema.Fields = {} THEN "ErrFieldNotFound"
    ELSE IF groupBy # "nil" THEN groupBy
    ELSE IF selectList # "nil" THEN selectList
    ELSE "nil"

ExecuteMetadataLookup ==
    /\ mlPc = "ready"
    /\ mlErr' = ExecuteResult
    /\ mlPc' = "done"
    /\ UNCHANGED <<mlMetaErr, mlSchema, mlGroupBy, mlAllFields, mlSelectItems>>
    /\ UNCHANGED exceptMl

NextMl == ExecuteMetadataLookup

\* While one part runs, the other parts stay in one fixed initial state.
CompactParked ==
    /\ CompactInit
    /\ ~rollup /\ level = 0
    /\ inputs = << <<1>>, <<>> >>
    /\ fileKeys = [f \in {1, 2} |-> {}]

PageParked == PageInit /\ diskFiles = {}

SstParked == SstInit /\ sstFile = ShortFile

TvParked == TvInit /\ condition = NilExpr /\ schemaTagKeys = {1} /\ failingTagKeys = {}

FirstRestInit == LifeInit /\ GetInit /\ WalInit /\ MgrInit
MlParked ==
    /\ MlInit
    /\ mlMetaErr = "nil" /\ mlSchema = NilSchema /\ mlGroupBy = <<>>
    /\ mlAllFields /\ mlSelectItems = <<>>

RestInit == FirstRestInit /\ TvParked /\ MlParked

LaterParked == SstParked /\ CacheInit /\ MetaInit /\ RestInit

Init == QueueInit /\ ReplicaInit /\ CompactParked /\ PageParked /\ PoolInit /\ LaterParked

InitCompact ==
    QueueInit /\ ReplicaInit /\ CompactInit /\ PageParked /\ PoolInit /\ LaterParked

InitPage == QueueInit /\ ReplicaInit /\ CompactParked /\ PageInit /\ PoolInit /\ LaterParked

FirstParked == QueueInit /\ ReplicaInit /\ CompactParked /\ PageParked /\ PoolInit

InitSst == FirstParked /\ SstInit /\ CacheInit /\ MetaInit /\ RestInit

SpecQueue == Init /\ [][NextQueue]_vars

\* A woken consumer goroutine is scheduled: it re-checks its condition and returns.
SpecQueueLive == SpecQueue /\ \A g \in Groups : WF_vars(ConsumeWake(g))

SpecReplica == Init /\ [][NextReplica]_vars

SpecCompact == InitCompact /\ [][NextCompact]_vars

SpecPage == InitPage /\ [][NextPage]_vars

SpecPool == Init /\ [][NextPool]_vars

SpecSst == InitSst /\ [][NextSst]_vars

SpecCache == Init /\ [][NextCache]_vars

SpecMeta == Init /\ [][NextMeta]_vars

\* the metadata database with its Close
SpecMetaLife == Init /\ [][NextMetaLife]_vars

\* concurrent callers of GetOrCreateMetricMeta
SpecGet == Init /\ [][NextGet]_vars

\* the WAL configuration and its readers
SpecWal == Init /\ [][NextWal]_vars

\* concurrent callers of the store manager
SpecMgr == Init /\ [][NextMgr]_vars

\* the tag values lookup on every condition, schema and metaDB of the bounds
InitTv ==
    FirstParked /\ SstParked /\ CacheInit /\ MetaInit /\ FirstRestInit /\ TvInit /\ MlParked
SpecTv == InitTv /\ [][NextTv]_vars

\* the metadata lookup on every schema and query of the bounds
InitMl ==
    FirstParked /\ SstParked /\ CacheInit /\ MetaInit /\ FirstRestInit /\ TvParked /\ MlInit
SpecMl == InitMl /\ [][NextMl]_vars

\* the Go scheduler runs every runnable goroutine, and a task's handle returns
\* or panics: the dispatcher's and the workers' steps are weakly fair
\* the pool with a scheduler that lets every goroutine that can take a step
\* take it; nobody has to call Submit or Stop, and a caller of Submit may
\* stay away from its select for ever
SpecPoolStop ==
    /\ Init /\ [][NextPool]_vars
    /\ WF_vars(DispatchDone) /\ WF_vars(GetReadyWorker) /\ WF_vars(NewWorker)
    /\ WF_vars(Execute)
    /\ \A w \in Workers : WF_vars(\E panicked \in BOOLEAN : WorkerFinish(w, panicked))
    /\ WF_vars(StopCancel) /\ WF_vars(StopWaitDispatcher) /\ WF_vars(StopWorker)
    /\ WF_vars(StopWorkersEnd) /\ WF_vars(StopReturn)
    /\ WF_vars(\E panicked \in BOOLEAN : ConsumeRemaining(panicked))

SpecPoolLive ==
    /\ Init /\ [][NextPool]_vars
    /\ WF_vars(GetReadyWorker) /\ WF_vars(NewWorker) /\ WF_vars(Execute)
    /\ \A w \in Workers : WF_vars(\E panicked \in BOOLEAN : WorkerFinish(w, panicked))

(***************************************************************************)
(* Claims about the fan-out queue                                          *)
(***************************************************************************)

Ordered(g) == acknowledgedSeq[g] <= consumedSeq[g] /\ consumedSeq[g] <= appendedSeq

\* SetConsumedSeq(g, s) with s outside [AcknowledgedSeq, AppendedSeq]
SetOutOfRange(g) ==
    \E s \in SeqArgs :
        /\ s < acknowledgedSeq[g] \/ s > appendedSeq
        /\ SetConsumedSeq(g, s)

C4_AckIdempotentMonotone ==
    [][\A g \in Groups :
          /\ \A s \in SeqArgs :
                Ack(g, s) =>
                   IF s <= acknowledgedSeq[g] \/ s > consumedSeq[g]
                   THEN UNCHANGED <<acknowledgedSeq, consumedSeq, groupMeta>>
                   ELSE /\ acknowledgedSeq'[g] = s
                        /\ groupMeta'[g].ack = s
                        /\ UNCHANGED consumedSeq
          /\ acknowledgedSeq'[g] >= acknowledgedSeq[g]]_vars

\* an Ack in the middle was accepted: 1 acknowledged, 2 consumed
C4_Witness ==
    /\ acknowledgedSeq["f1"] = 1
    /\ consumedSeq["f1"] = 2
    /\ groupMeta["f1"].ack = 1

Blocked(g) == pc[g] = "blocked"

\* C5: a consumer blocked in Consume whose group is paused or closed, or whose
\* queue is closed, eventually returns; one with an appended entry pending
\* eventually returns unless a replay (SetConsumedSeq) has moved the group back to
\* the end of the queue. It returns the next sequence when it is woken by an append
\* alone, and SeqNoNewMessageAvailable when it is woken with nothing appended.
C5_BlockedConsumerWakes ==
    /\ \A g \in Groups :
          (Blocked(g) /\ (groupState[g] # "running" \/ queueClosed)) ~> ~Blocked(g)
    /\ \A g \in Groups :
          (Blocked(g) /\ appendedSeq > consumedSeq[g])
             ~> (~Blocked(g) \/ appendedSeq <= consumedSeq[g])
    /\ [][\A g \in Groups :
             ConsumeWake(g) =>
                /\ ~Blocked(g)'
                /\ (appendedSeq > consumedSeq[g] /\ groupState[g] = "running" /\ ~queueClosed
                      => ret'[g] = <<consumedSeq[g] + 1>>)
                /\ (appendedSeq <= consumedSeq[g]
                      => ret'[g] = <<SeqNoNewMessageAvailable>>)]_vars

\* a consumer is blocked and its group has been paused
C5_Witness == Blocked("f1") /\ groupState["f1"] = "paused" /\ appendedSeq = -1

\* a call of Consume returns in this step
ConsumeReturns(g) == (Consume(g) \/ ConsumeWake(g)) /\ ret'[g] # <<>>

\* C6: every sequence Consume returns is the previous ConsumedSeq + 1, is an
\* appended one and is the new ConsumedSeq; between two returns nothing but
\* SetConsumedSeq changes ConsumedSeq. So without a SetConsumedSeq the returns
\* are 0, 1, 2, ... with no gap and no repeat.
C6_ConsumeInOrder ==
    [][\A g \in Groups :
          /\ ConsumeReturns(g) /\ ret'[g] # <<SeqNoNewMessageAvailable>> =>
                /\ ret'[g] = <<consumedSeq[g] + 1>>
                /\ consumedSeq'[g] = consumedSeq[g] + 1
                /\ consumedSeq'[g] <= appendedSeq
          /\ consumedSeq'[g] # consumedSeq[g] =>
                \/ ConsumeReturns(g)
                \/ \E s \in SeqArgs : SetConsumedSeq(g, s)]_vars

\* the third Consume has just returned 2
C6_Witness == ret["f1"] = <<2>> /\ consumedSeq["f1"] = 2 /\ appendedSeq = 2

\* C7: reopening a closed queue gives each group the ConsumedSeq and
\* AcknowledgedSeq it had when the queue was closed, and the queue its AppendedSeq.
C7_ReopenKeepsSequences ==
    [][Reopen =>
          /\ appendedSeq' = appendedSeq
          /\ \A g \in Groups :
                /\ consumedSeq'[g] = consumedSeq[g]
                /\ acknowledgedSeq'[g] = acknowledgedSeq[g]]_vars

\* scenario S1 after the reopen: consumed = 2, ack = 2, nothing pending
C7_Witness ==
    /\ opens = 1
    /\ ~queueClosed
    /\ consumedSeq["f1"] = 2
    /\ acknowledgedSeq["f1"] = 2
    /\ Pending("f1") = 0
    /\ NothingToConsume("f1")

Handed(s) == outcomes[s] # {}
Validated(s) == outcomes[s] \ {"invalid"} # {}

\* C2 as stated: every sequence handed to Replica is committed exactly once.
C2_EveryHandedCommittedOnce == \A s \in WalSeqs : Handed(s) => commits[s] = 1

\* C2 amended: a sequence is committed exactly once when a Replica call got it past
\* ValidateSequence (written, empty, decompress failure, write failure or panic)
\* and never otherwise: an out-of-order sequence is dropped without a commit.
C2_ValidatedCommittedOnce ==
    \A s \in WalSeqs : commits[s] = IF Validated(s) THEN 1 ELSE 0

\* one entry dropped out of order and not committed, one failed in WriteRows and committed
C2_Witness ==
    \E s, u \in WalSeqs :
        /\ outcomes[s] = {"invalid"} /\ commits[s] = 0
        /\ "writeErr" \in outcomes[u] /\ commits[u] = 1

\* C3: a Replica call writes rows only for sequence = replica sequence + 1; for
\* any other sequence it writes nothing, commits nothing, ignores nothing and
\* increments the invalid-sequence counter.
C3_OutOfOrderDropped ==
    [][\A sequence \in WalSeqs, msg \in Msgs, writeOK \in BOOLEAN :
          Replica(sequence, msg, writeOK) =>
             IF sequence = replicaSeq + 1
             THEN /\ statistics'.InvalidSequence = statistics.InvalidSequence
                  /\ familyRows' # familyRows =>
                        familyRows' = Append(familyRows, [sequence |-> sequence, rows |-> msg.rows])
             ELSE /\ statistics'.InvalidSequence = statistics.InvalidSequence + 1
                  /\ UNCHANGED <<familyRows, replicaSeq, commits, ignored>>]_vars

\* an entry was dropped as out of order and another one was written
C3_Witness == statistics.InvalidSequence > 0 /\ familyRows # <<>>

\* C9: a validated entry that fails to decompress is passed to IgnoreMessage and
\* committed, no rows are written, and the next contiguous sequence validates.
C9_DecompressFailureCommitted ==
    [][\A sequence \in WalSeqs, msg \in Msgs, writeOK \in BOOLEAN :
          Replica(sequence, msg, writeOK) /\ sequence = replicaSeq + 1 /\ ~msg.snappy =>
             /\ sequence \in ignored'
             /\ commits'[sequence] = commits[sequence] + 1
             /\ familyRows' = familyRows
             /\ statistics'.DecompressFailures = statistics.DecompressFailures + 1
             /\ ValidateSequence(sequence + 1)']_vars

\* an entry failed to decompress and the entry after it was accepted and written
C9_Witness ==
    \E s \in WalSeqs :
        /\ "decompress" \in outcomes[s] /\ s \in ignored
        /\ s + 1 \in WalSeqs /\ "written" \in outcomes[s + 1]

\* C10 as stated: an entry whose WriteRows failed is passed to IgnoreMessage and
\* committed.
C10_WriteFailureIgnored ==
    \A s \in WalSeqs : "writeErr" \in outcomes[s] => s \in ignored /\ commits[s] = 1

(***************************************************************************)
(* Claims about the compaction job                                         *)
(***************************************************************************)

\* the job runs mergeCompaction (the default case of Run's switch)
MergePath == ~(~rollup /\ IsTrivialMove)

CommittedRecords == UNION { committedLogs[i] : i \in DOMAIN committedLogs }

\* the files of level l in the family's current version: the picked files as
\* the planner found them, changed by the committed edit logs
FilesAt(l) ==
    (((IF l = level THEN Range(inputs[1]) ELSE {})
        \cup (IF l = level + 1 THEN Range(inputs[2]) ELSE {}))
        \ { r.file : r \in { x \in CommittedRecords : x.op = "delete" /\ x.level = l } })
        \cup { r.file : r \in { x \in CommittedRecords : x.op = "add" /\ x.level = l } }

\* C11: when a step of a merge compaction fails, the job has committed no
\* edit log, every input file is still on the level it was picked from, and no
\* file number the job took is still a pending output once the job returned.
C11_FailedMergeAborts ==
    /\ (MergePath /\ runErr = "err") =>
          /\ committedLogs = <<>>
          /\ FilesAt(level) = Range(inputs[1])
          /\ FilesAt(level + 1) = Range(inputs[2])
    /\ (MergePath /\ runErr = "err" /\ jobPc = "done") =>
          pendingOutputs \cap (3..(nextFileNumber - 1)) = {}

\* a merge failed after one output file was finished and a second builder was open
C11_Witness ==
    /\ jobPc = "done" /\ runErr = "err"
    /\ outputs # <<>> /\ builder # <<>>
    /\ nextFileNumber = 5

\* C12: a merge compaction that succeeds commits exactly one edit log; its
\* delete records are the input files when the job is not a rollup and none
\* when it is, and its add records are the output files, at level + 1 for a
\* compaction and at the compaction's own level for a rollup.
C12_SuccessfulMergeInstalls ==
    /\ Len(committedLogs) <= 1
    /\ (MergePath /\ runErr = "nil") =>
          /\ Len(committedLogs) = 1
          /\ { r \in committedLogs[1] : r.op = "delete" }
                = (IF rollup THEN {} ELSE MarkInputDeletes)
          /\ { r \in committedLogs[1] : r.op = "add" }
                = { AddFile(IF rollup THEN level ELSE level + 1, outputs[i]) :
                        i \in DOMAIN outputs }
          /\ committedLogs[1] \subseteq [op : {"delete", "add"}, level : {level, level + 1},
                                         file : Range(InputFiles) \cup Range(outputs)]

\* a rollup of two files finished with two output files
C12_Witness ==
    /\ jobPc = "done" /\ runErr = "nil" /\ rollup
    /\ Len(outputs) = 2 /\ Len(InputFiles) = 2

\* C13: a compaction without rollup that is a trivial move never calls the
\* merger, opens no builder and takes no file number; what it commits is one
\* edit log holding the delete of the file at its level and the add of the
\* same file one level up.
C13_TrivialMoveOnlyEditsMetadata ==
    (~rollup /\ IsTrivialMove) =>
        /\ jobPc \in {"start", "done"}
        /\ mergeCalls = <<>> /\ builder = <<>> /\ outputs = <<>>
        /\ nextFileNumber = 3 /\ pendingOutputs = {}
        /\ committedLogs = (IF jobPc = "start" THEN <<>>
                            ELSE << { [op |-> "delete", level |-> level, file |-> inputs[1][1]],
                                      [op |-> "add", level |-> level + 1, file |-> inputs[1][1]] } >>)
        /\ (jobPc = "done" => runErr = "nil")

\* a file that stores keys was moved without being merged
C13_Witness ==
    /\ ~rollup /\ IsTrivialMove /\ jobPc = "done"
    /\ fileKeys[1] = Keys
    /\ FilesAt(level) = {} /\ FilesAt(level + 1) = {1}

\* the input files that store key k, in the order the job opens them
ValuesOf(k) == SelectSeq(InputFiles, LAMBDA f : k \in fileKeys[f])

RECURSIVE CallsFor(_)
CallsFor(S) ==
    IF S = {} THEN <<>>
    ELSE LET k == Min(S)
         IN  << [key |-> k, values |-> ValuesOf(k)] >> \o CallsFor(S \ {k})

\* one Merge call for each key stored in some input file, ascending by key
ExpectedCalls == CallsFor({ e.key : e \in InputEntries })

IsPrefix(a, b) == Len(a) <= Len(b) /\ \A i \in DOMAIN a : a[i] = b[i]

\* C14: the Merge calls of a merge compaction are, at every moment, the
\* first calls of the list that holds one call per key stored in the input
\* files, ascending by key, each with the values all input files store under
\* that key; once doMerge is through the iterator without a failure the list
\* is complete.
C14_MergeOncePerKey ==
    /\ IsPrefix(mergeCalls, ExpectedCalls)
    /\ (jobPc = "install" \/ (MergePath /\ runErr = "nil")) => mergeCalls = ExpectedCalls

\* two files share a key and one of them stores a second key
C14_Witness ==
    /\ jobPc = "done" /\ runErr = "nil"
    /\ Len(mergeCalls) = 2
    /\ \E i \in DOMAIN mergeCalls : Len(mergeCalls[i].values) = 2

(***************************************************************************)
(* Claims about the page factory                                           *)
(***************************************************************************)

\* C15: a TruncatePages(index) on an open factory leaves no page with an id
\* below index in the page map or on disk, and leaves every page with an id
\* of at least index as it was (registered, not closed).
C15_TruncateDeletesAllBelow ==
    [][\A index \in 0..(MaxPageId + 1), removeFails \in SUBSET PageIds :
          (TruncatePages(index, removeFails) /\ ~factoryClosed) =>
              /\ \A id \in DOMAIN pages :
                    id < index => /\ id \notin DOMAIN pages'
                                  /\ pageFileName(id) \notin diskFiles'
              /\ \A id \in DOMAIN pages :
                    id >= index => /\ id \in DOMAIN pages'
                                   /\ pages'[id] = pages[id]
                                   /\ pageCloses'[pages[id]] = pageCloses[pages[id]]]_vars

\* C16: AcquirePage(index) on an open factory returns the page registered
\* for index, or maps a new page, registers it for index and returns it; on a
\* closed factory it returns errFactoryClosed and the page map stays as it is.
C16_AcquireRegisteredOrNew ==
    [][\A index \in PageIds, mapOK \in BOOLEAN :
          AcquirePage(index, mapOK) =>
              /\ IF factoryClosed
                 THEN acquireRet'.err = "errFactoryClosed" /\ pages' = pages /\ size' = size
                 ELSE IF index \in DOMAIN pages
                 THEN /\ acquireRet'.err = "nil"
                      /\ acquireRet'.page = pages[index]
                      /\ pages' = pages /\ size' = size
                 ELSE IF mapOK
                 THEN /\ acquireRet'.err = "nil"
                      /\ acquireRet'.page \notin PagesOf(pages)
                      /\ pageCloses'[acquireRet'.page] = 0
                      /\ DOMAIN pages' = DOMAIN pages \cup {index}
                      /\ pages'[index] = acquireRet'.page
                      /\ \A id \in DOMAIN pages : pages'[id] = pages[id]
                 ELSE acquireRet'.err = "errMap" /\ pages' = pages /\ size' = size]_vars

\* two pages were acquired, the second acquire of page 1 returned the first
\* one's page, and the factory is still open
C16_Witness ==
    /\ constructed = "ok" /\ ~factoryClosed
    /\ DOMAIN pages = {0, 1}
    /\ acquireRet # <<>> /\ acquireRet.err = "nil"
    /\ acquireRet.page = pages[1] /\ nextPage = 3 /\ pages[0] = 2

\* C17: over all Close calls each registered page is closed at most once by
\* Close, and exactly once when the Close that won the swap has returned;
\* f.closed never goes back to false, and an AcquirePage on a closed factory
\* returns errFactoryClosed without touching the page map.
C17_CloseIdempotent ==
    /\ [](\A o \in PagesOf(pages) : closesByClose[o] <= 1)
    /\ []((/\ constructed = "ok"
           /\ \E c \in Closers : closerPc[c] = "returned"
           /\ \A c \in Closers : closerPc[c] # "locking")
             => \A o \in PagesOf(pages) : closesByClose[o] = 1)
    /\ [][factoryClosed => factoryClosed']_vars
    /\ [][\A index \in PageIds, mapOK \in BOOLEAN :
             (AcquirePage(index, mapOK) /\ factoryClosed) =>
                 acquireRet'.err = "errFactoryClosed" /\ pages' = pages]_vars

\* both callers of Close returned, two pages were registered, and an acquire
\* issued afterwards failed
C17_Witness ==
    /\ \A c \in Closers : closerPc[c] = "returned"
    /\ Cardinality(DOMAIN pages) = 2
    /\ \A o \in PagesOf(pages) : closesByClose[o] = 1
    /\ acquireRet # <<>> /\ acquireRet.err = "errFactoryClosed"

\* the registered pages that are still mapped (never closed)
MappedPages == { id \in DOMAIN pages : pageCloses[pages[id]] = 0 }

\* C18 as stated: Size() is pageSize times the number of pages the factory
\* has mapped.
C18_SizeIsMappedBytes ==
    constructed = "ok" => size = pageSize * Cardinality(MappedPages)

\* C18: Size() is pageSize times the number of pages registered in the page
\* map, whether or not they are still mapped.
C18_SizeIsRegisteredPages == size = pageSize * Cardinality(DOMAIN pages)

\* two pages were acquired, one was truncated, and the factory was closed
C18_Witness ==
    /\ constructed = "ok" /\ \A c \in Closers : closerPc[c] = "returned"
    /\ nextPage = 3 /\ DOMAIN pages = {1}
    /\ size = pageSize /\ MappedPages = {}

\* a file name of the form <int>.bat
WellNamed(fn) ==
    /\ Len(fn) >= 3
    /\ fn[Len(fn)] = pageSuffix /\ fn[Len(fn) - 1] = "."
    /\ \A i \in 1..(Len(fn) - 2) : IsDigit(fn[i])

\* C19: when the directory holds a file whose name is not <int>.bat,
\* NewFactory ends with an error and returns no factory.
C19_BadNameFailsConstruction ==
    (constructed # "no" /\ \E fn \in diskFiles : ~WellNamed(fn)) => constructed = "err"

(***************************************************************************)
(* Claims about the goroutine pool                                         *)
(***************************************************************************)

\* the tasks Submit put on p.tasks
Accepted ==
    Range(taskQueue) \cup executed \cup ({dispTask} \ {0})
        \cup ({ workerTask[w] : w \in Workers } \ {0})

\* C20: when Stop has returned, every task that Submit put on the pool's
\* tasks channel has been executed.
C20_StopLeavesNoAcceptedTask == stopPc = "done" => Accepted \subseteq executed


\* the worker goroutines that are running: waiting in their select or executing
LiveWorkers == { w \in Workers : workerPc[w] \in {"select", "exec"} }

\* C21: the number of live workers, and the WorkersAlive gauge, never exceed
\* maxWorkers; while maxWorkers workers are alive and none is ready, the
\* dispatcher stays in mustGetWorker and no worker is created
C21_WorkersBounded ==
    /\ [](Cardinality(LiveWorkers) <= MaxWorkers /\ workersAlive <= MaxWorkers)
    /\ [][(dispPc = "getWorker" /\ workersAlive >= MaxWorkers /\ readyWorkers = <<>>)
            => (dispPc' = "getWorker" /\ workersAlive' = workersAlive
                /\ LiveWorkers' = LiveWorkers)]_vars
C21_Witness ==
    /\ dispPc = "getWorker"
    /\ dispTask # 0
    /\ readyWorkers = <<>>
    /\ workersAlive = MaxWorkers
    /\ Cardinality(LiveWorkers) = MaxWorkers

\* C22: when the task a worker executes panics, the panic handler of the task
\* (when set) has been invoked, the worker is still alive and has registered
\* itself as ready; and a task the dispatcher takes after a panic is executed
C22_PanicConfined ==
    /\ [][\A w \in Workers :
            (workerTask[w] # 0 /\ workerTask'[w] = 0 /\ tasksPanic' = tasksPanic + 1)
            => /\ workerPc'[w] = "select"
               /\ readyWorkers' = Append(readyWorkers, w)
               /\ workersAlive' = workersAlive
               /\ workerTask[w] \in WithPanicHandle => workerTask[w] \in panicHandled']_vars
    /\ \A t \in Tasks : (dispTask = t /\ tasksPanic > 0) ~> (t \in executed)
\* the first task has panicked and its handler has run; a worker of the running
\* pool executes the second task
C22_Witness ==
    /\ tasksPanic = 1
    /\ panicHandled = {1}
    /\ executed = {1}
    /\ \E w \in Workers : workerTask[w] = 2
    /\ stopPc = "idle"

\* C23: a Submit call that returns without having placed its task on p.tasks
\* has incremented TasksRejected
C23_RejectedSubmitCounted ==
    [][\A t \in Tasks :
        (submitPc[t] # "returned" /\ submitPc'[t] = "returned" /\ taskQueue' = taskQueue)
        => tasksRejected' = tasksRejected + 1]_vars

\* C24: while the reader is open, every pair the iterator has yielded carries
\* the value Get returns for its key without an error or with the same failed
\* lookup, the keys yielded are the keys of the bitmap in ascending order, and
\* an exhausted iterator has yielded every key of the bitmap
C24_GetAgreesWithIterator ==
    sstReader.state = "open" =>
        /\ \A i \in 1..Len(visited) :
              /\ visited[i][1] \in sstReader.keys
              /\ visited[i][1] = NthKey(sstReader.keys, i)
              /\ visited[i][2] = Get(sstReader, visited[i][1]).value
        /\ \A i \in 1..(Len(visited) - 1) : visited[i][1] < visited[i + 1][1]
        /\ sstIt.pc = "done" => { visited[i][1] : i \in 1..Len(visited) } = sstReader.keys
\* the iterator has run over two keys with different non-empty values, and Get
\* has returned the value of the second one
C24_Witness ==
    /\ sstReader.state = "open"
    /\ sstIt.pc = "done"
    /\ Len(visited) = 2
    /\ visited[1][2] # <<>> /\ visited[2][2] # <<>>
    /\ getRet.key = visited[2][1] /\ getRet.err = "nil" /\ getRet.value = visited[2][2]

\* C25: once newMMapStoreReader has returned for a file whose magic number is
\* wrong, whose footer positions are not ordered 0 <= posOfOffset <= posOfKeys
\* <= footerStart, whose offsets or keys fail to decode, or whose offsets and
\* keys differ in number, it has returned an error and there is no reader
C25_CorruptFileYieldsNoReader ==
    (/\ sstRet # "none"
     /\ \/ ~sstFile.magic
        \/ ~(0 <= sstFile.posOfOffset /\ sstFile.posOfOffset <= sstFile.posOfKeys
             /\ sstFile.posOfKeys <= footerStart)
        \/ sstFile.offsets.err
        \/ sstFile.keys.err
        \/ Len(sstFile.offsets.v) # Cardinality(sstFile.keys.v))
    => (sstRet # "nil" /\ sstReader.state = "nil")
\* the file was opened and mapped, its magic number and positions are good, and
\* initialize has rejected it for its number of offsets
C25_Witness ==
    /\ sstRet = "count"
    /\ sstFile.magic /\ ~sstFile.offsets.err /\ ~sstFile.keys.err
    /\ sstReader = NilReader

\* C26: a Cleanup leaves the entry and the reader of every file that is still
\* referenced as they are, closes and removes every cached reader that is not
\* referenced and has been idle for longer than the ttl, and no reader is
\* closed twice
C26_CleanupSparesReferenced ==
    /\ [][CacheCleanup =>
            \A f \in CacheFiles :
                /\ held[f] > 0 =>
                     (cacheItems'[f] = cacheItems[f] /\ readerCloses'[f] = readerCloses[f])
                /\ (cacheItems[f].cached /\ held[f] = 0 /\ cacheItems[f].idle > CacheTtl) =>
                     (~cacheItems'[f].cached /\ readerCloses'[f] = 1)]_vars
    /\ [](\A f \in CacheFiles : readerCloses[f] <= 1)
\* one Cleanup has found file 2 idle beyond the ttl but referenced and has left
\* it cached, and the reader of file 1 has been closed by a Cleanup
C26_Witness ==
    /\ 2 \in kept /\ cacheItems[2].cached /\ held[2] > 0 /\ readerCloses[2] = 0
    /\ 1 \notin evicted /\ ~cacheItems[1].cached /\ readerCloses[1] = 1

\* C27: until Close is called the replicator holds exactly one retain on its
\* family and the family is not evicted, and Close gives back exactly that one
C27_OneRetainUntilClose ==
    /\ [](~replicatorClosed => (familyRetains = 1 /\ ~familyEvicted))
    /\ [][(~replicatorClosed /\ replicatorClosed') => familyRetains' = familyRetains - 1]_vars
    /\ [](replicatorClosed => familyRetains = 0)
\* the replicator has written rows and was closed, and only then the family
\* was evicted
C27_Witness ==
    /\ replicatorClosed /\ familyEvicted /\ familyRetains = 0
    /\ familyRows # <<>>

\* C30: the rows of every WriteRows call of the replicator are in
\* non-decreasing order of their timestamps
C30_WrittenRowsSorted ==
    \A c \in 1..Len(familyRows) :
        \A i \in 1..(Len(familyRows[c].rows) - 1) :
            familyRows[c].rows[i] <= familyRows[c].rows[i + 1]

\* the events of the calls the handle goroutine has made, in order
WorkerCalls == SelectSeq(calls, LAMBDA c : c[1] \in {"handleRow", "PrepareFlush"})
\* the position of an event in a sequence of events (0: not in it)
PositionIn(q, e) == IF \E i \in 1..Len(q) : q[i] = e
                    THEN CHOOSE i \in 1..Len(q) : q[i] = e ELSE 0

C29_FlushIsTwoPhase ==
    \A e \in FlushEvents :
        /\ \A i \in 1..Len(calls) :
              /\ (calls[i][1] = "Flush" /\ calls[i][2] = e) =>
                    \E j \in 1..(i - 1) : calls[j][1] = "PrepareFlush" /\ calls[j][2] = e
              /\ (calls[i][1] = "PrepareFlush" /\ calls[i][2] = e) =>
                    \A r \in MetaEvents :
                        (/\ ~IsFlush(r) /\ PositionIn(accepted, r) # 0
                         /\ PositionIn(accepted, r) < PositionIn(accepted, e)) =>
                            \E j \in 1..(i - 1) : calls[j] = <<"handleRow", r, "nil">>
              /\ (calls[i][1] = "Callback" /\ calls[i][2] = e) =>
                    \E j \in 1..(i - 1) : calls[j] = <<"Flush", e, calls[i][3]>>
        /\ Cardinality({ i \in 1..Len(calls) : calls[i][1] = "Callback" /\ calls[i][2] = e })
             = (IF flushPc[e] = "done" THEN 1 ELSE 0)
        /\ Cardinality({ i \in 1..Len(calls) : calls[i][1] = "Flush" /\ calls[i][2] = e }) <= 1
\* a row was accepted before the flush event, the Flush has failed and the
\* callback has been called
C29_Witness ==
    /\ accepted # <<>> /\ accepted[1] = 1 /\ PositionIn(accepted, 2) = 2
    /\ flushPc[2] = "done" /\ flushErr[2] = "err"

\* C39: once newMMapStoreReader has returned an error, the file it opened is
\* closed and no mapping it created is left without an unmap
C39_FailedOpenReleasesAll ==
    (sstRet # "none" /\ sstRet # "nil") => (~sstRes.file /\ sstRes.mapping # "mapped")

\* factory.GetPage(index): the page registered under index, if any
GetPage(index) ==
    IF index \in DOMAIN pages THEN [page |-> pages[index], ok |-> TRUE]
    ELSE [page |-> 0, ok |-> FALSE]

\* C34: while the factory is open, no page that GetPage finds and no page that
\* AcquirePage has just returned has been closed
C34_NoClosedPageReturned ==
    (constructed = "ok" /\ ~factoryClosed) =>
        /\ \A index \in PageIds :
              GetPage(index).ok => pageCloses[GetPage(index).page] = 0
        /\ (acquireRet # <<>> /\ acquireRet.err = "nil") => pageCloses[acquireRet.page] = 0

\* C35: when a merge compaction job has finished, with or without an error,
\* every table builder it opened was closed into an output file or abandoned
\* by the cleanup, and no file number it took is still a pending output.
C35_BuildersReleased ==
    (MergePath /\ jobPc = "done") =>
        /\ \A n \in 3..(nextFileNumber - 1) :
              \/ n \in Range(outputs)
              \/ (builder # <<>> /\ builder[1].FileNumber = n)
        /\ pendingOutputs \cap (3..(nextFileNumber - 1)) = {}


\* C37: no lifecycle operation of the metadata database panics: no Notify
\* sends on the closed channel, and no Close closes it a second time
C37_NoLifecyclePanic == metaPanic = "none"


\* the callers whose GetOrCreateMetricMeta for name hash h has returned
ReturnedFor(h) == { c \in GetCallers : getPc[c] = "returned" /\ getHash[c] = h }

\* C38: under concurrent GetOrCreateMetricMeta calls for one name hash, at
\* most one metric store is ever created for it, every caller that returned
\* got that store, and exactly one of the callers that returned got isNew
C38_OneStorePerHash ==
    \A h \in NameHashes :
        /\ Cardinality({ i \in DOMAIN createdFor : createdFor[i] = h }) <= 1
        /\ \A c \in ReturnedFor(h) :
              /\ getOut[c].store # 0
              /\ createdFor[getOut[c].store] = h
              /\ getOut[c].store = metricMetadatas[h]
        /\ ReturnedFor(h) # {} =>
              Cardinality({ c \in ReturnedFor(h) : getOut[c].isNew }) = 1
\* two callers of one name hash both missed the first Load, both took the
\* lock, and both have returned
C38_Witness ==
    \E c, d \in GetCallers :
        /\ c # d /\ getHash[c] = getHash[d]
        /\ {c, d} \subseteq tookLock
        /\ getPc[c] = "returned" /\ getPc[d] = "returned"


\* C40: a call of Stop that has passed its Swap eventually returns, and when
\* it has returned the dispatcher has exited and no worker is alive
C40_StopTerminates ==
    (stopPc = "cancel") ~> (stopPc = "done" /\ dispPc = "exited" /\ workersAlive = 0)
\* Stop is in stopWorkers while every worker alive is still running its task
C40_Witness ==
    /\ stopPc = "workers" /\ workersAlive > 0 /\ readyWorkers = <<>>
    /\ \E w \in Workers : workerPc[w] = "exec"


\* C33: what GetPageSize returns is at least 128 MiB and at most 1 GiB
C33_PageSizeInRange ==
    walRet # 0 => (walRet >= 128 * MiB /\ walRet <= 1024 * MiB)


\* C36: no Store instance is closed more than once, and every Store instance
\* that was made and not closed is the one registered under the name
C36_CloseOnceAndOwn ==
    \A i \in 1..storesMade :
        /\ storeCloses[i] <= 1
        /\ storeCloses[i] = 0 => stores = i


\* the condition holds a binary expression with an operator other than AND and OR
RECURSIVE HasWrongBinary(_)
HasWrongBinary(e) ==
    \/ e.kind = "binary" /\ e.op \notin {"AND", "OR"}
    \/ \E i \in DOMAIN e.args : HasWrongBinary(e.args[i])
\* the tag keys of the tag filters of the condition
RECURSIVE LeafKeys(_)
LeafKeys(e) ==
    IF e.kind = "tag" THEN {e.key} ELSE UNION { LeafKeys(e.args[i]) : i \in DOMAIN e.args }
\* every tag filter of the condition has its tag key in the schema and its lookup succeeds
AllLeavesFound == LeafKeys(condition) \cap failingTagKeys = {}
                     /\ LeafKeys(condition) \subseteq schemaTagKeys
RecordedKeys == { x.key[2] : x \in TagFilterResult }

\* C31, as stated: a condition with a binary operator other than AND and OR
\* fails with the wrong-operator error, and a condition with AND and OR only
\* gets one recorded result per tag filter
C31_AsStated ==
    tvPc = "done" =>
        /\ HasWrongBinary(condition) => tvErr = "wrong binary operator"
        /\ ~HasWrongBinary(condition) => RecordedKeys = LeafKeys(condition)
\* C31: a condition with a binary operator other than AND and OR, at any
\* depth, always fails, and with the wrong-operator error when every tag
\* filter's lookup succeeds; a condition with AND and OR only succeeds with
\* one recorded result per distinct tag filter when every tag filter's lookup
\* succeeds, and fails with the first lookup's error otherwise
C31_WrongOperatorRejected ==
    tvPc = "done" =>
        /\ HasWrongBinary(condition) => tvErr # "nil"
        /\ (HasWrongBinary(condition) /\ AllLeavesFound) => tvErr = "wrong binary operator"
        /\ (~HasWrongBinary(condition) /\ AllLeavesFound) =>
              /\ tvErr = "nil"
              /\ RecordedKeys = LeafKeys(condition)
              /\ \A x \in TagFilterResult : x.TagKeyID = TagKeyID(x.key[2])
        /\ (~HasWrongBinary(condition) /\ ~AllLeavesFound) =>
              tvErr \in {"ErrTagKeyIDNotFound", "FindTagValueDsByExpr"}
\* a wrong operator under a NOT and parentheses was rejected
C31_Witness ==
    /\ tvPc = "done" /\ tvErr = "wrong binary operator"
    /\ condition.kind = "not" /\ condition.args[1].kind = "paren"
    /\ HasWrongBinary(condition)

\* the four conditions the metadata lookup rejects a query for
NoSchema == mlSchema.nil
NoFields == ~mlSchema.nil /\ mlSchema.Fields = {}
SelectedFieldMissing ==
    ~mlSchema.nil /\ \E i \in DOMAIN mlSelectItems : mlSelectItems[i].field \notin mlSchema.Fields
GroupByKeyMissing ==
    ~mlSchema.nil /\ \E i \in DOMAIN mlGroupBy : mlGroupBy[i] \notin mlSchema.TagKeys
EmptySelect == ~mlAllFields /\ mlSelectItems = <<>>
AllFuncsOK == \A i \in DOMAIN mlSelectItems : mlSelectItems[i].funcOK

\* C32: once the metric's schema was fetched, the lookup rejects the query
\* whenever one of the four conditions holds, with the error of the first of
\* them in the order no schema, no fields, group-by tag key missing, select
\* list empty or selected field missing; and it succeeds only when none holds
C32_LookupRejects ==
    (mlPc = "done" /\ mlMetaErr = "nil") =>
        /\ NoSchema => mlErr = "ErrMetricIDNotFound"
        /\ NoFields => mlErr = "ErrFieldNotFound"
        /\ (~NoSchema /\ ~NoFields /\ GroupByKeyMissing) => mlErr = "ErrTagKeyIDNotFound"
        /\ (~NoSchema /\ ~NoFields /\ ~GroupByKeyMissing /\ EmptySelect) =>
              mlErr = "ErrEmptySelectList"
        /\ (~NoSchema /\ ~NoFields /\ ~GroupByKeyMissing /\ SelectedFieldMissing /\ AllFuncsOK) =>
              mlErr = "ErrFieldNotFound"
        /\ (NoSchema \/ NoFields \/ GroupByKeyMissing \/ EmptySelect \/ SelectedFieldMissing) =>
              mlErr # "nil"
        /\ mlErr \in {"ErrMetricIDNotFound", "ErrFieldNotFound", "ErrTagKeyIDNotFound",
                      "ErrEmptySelectList"} =>
              (NoSchema \/ NoFields \/ GroupByKeyMissing \/ EmptySelect \/ SelectedFieldMissing)
\* a query with a group-by tag key and a selected field that the schema both
\* lacks was rejected for the tag key
C32_Witness ==
    /\ mlPc = "done" /\ mlErr = "ErrTagKeyIDNotFound"
    /\ GroupByKeyMissing /\ SelectedFieldMissing

=============================================================================
